---------------------------- MODULE Spec2Model ----------------------------
(***************************************************************************)
(* Model of the slot-machine outcome engine of goladium                    *)
(* (src/backend/server.py, src/backend/slot_simulation.py).                *)
(*                                                                         *)
(* Money is a Python float in the code.  Every amount the code stores or   *)
(* returns has gone through round(x, 2), so the model keeps amounts as     *)
(* integer hundredths ("cents") and re-creates the float the code holds    *)
(* with FromCents.  The float operations of the code (product, sum,       *)
(* comparison, round) are carried out exactly as IEEE-754 binary64 does    *)
(* them, on arbitrary precision naturals.                                  *)
(***************************************************************************)
EXTENDS Integers, Sequences, FiniteSets, TLC

(***************************************************************************)
(* Arbitrary precision naturals: little-endian sequences of limbs in base  *)
(* LimbBase, without leading (high) zero limbs; <<>> is zero.              *)
(***************************************************************************)
LimbBits == 15
LimbBase == 2^LimbBits

Min(a, b) == IF a <= b THEN a ELSE b
Max(a, b) == IF a >= b THEN a ELSE b

RECURSIVE BitLenSmall(_)
BitLenSmall(n) == IF n = 0 THEN 0 ELSE 1 + BitLenSmall(n \div 2)

RECURSIVE BigFromInt(_)
BigFromInt(n) == IF n = 0 THEN <<>> ELSE <<n % LimbBase>> \o BigFromInt(n \div LimbBase)

RECURSIVE BigToInt(_)
BigToInt(a) == IF a = <<>> THEN 0 ELSE Head(a) + LimbBase * BigToInt(Tail(a))

RECURSIVE BigMulCarry(_, _, _)
BigMulCarry(a, c, carry) ==
    IF a = <<>> THEN BigFromInt(carry)
    ELSE LET t == Head(a) * c + carry
         IN  <<t % LimbBase>> \o BigMulCarry(Tail(a), c, t \div LimbBase)

\* a * c for 0 <= c <= LimbBase
BigMulSmall(a, c) == IF c = 0 THEN <<>> ELSE BigMulCarry(a, c, 0)

RECURSIVE BigAddCarry(_, _, _)
BigAddCarry(a, b, carry) ==
    IF a = <<>> /\ b = <<>> THEN BigFromInt(carry)
    ELSE LET x == IF a = <<>> THEN 0 ELSE Head(a)
             y == IF b = <<>> THEN 0 ELSE Head(b)
             t == x + y + carry
         IN  <<t % LimbBase>>
               \o BigAddCarry(IF a = <<>> THEN <<>> ELSE Tail(a),
                              IF b = <<>> THEN <<>> ELSE Tail(b), t \div LimbBase)

BigAdd(a, b) == BigAddCarry(a, b, 0)

RECURSIVE BigSubBorrow(_, _, _)
BigSubBorrow(a, b, borrow) ==
    IF a = <<>> THEN <<>>
    ELSE LET y == IF b = <<>> THEN 0 ELSE Head(b)
             t == Head(a) - y - borrow
         IN  <<(t + LimbBase) % LimbBase>>
               \o BigSubBorrow(Tail(a), IF b = <<>> THEN <<>> ELSE Tail(b),
                               IF t < 0 THEN 1 ELSE 0)

\* a without its zero top limbs
RECURSIVE BigTrim(_)
BigTrim(a) ==
    IF a = <<>> \/ a[Len(a)] # 0 THEN a ELSE BigTrim(SubSeq(a, 1, Len(a) - 1))

\* a - b for a >= b
BigSub(a, b) == BigTrim(BigSubBorrow(a, b, 0))

\* a * b
RECURSIVE BigMul(_, _)
BigMul(a, b) ==
    IF a = <<>> \/ b = <<>> THEN <<>>
    ELSE BigAdd(BigMulSmall(a, Head(b)), BigTrim(<<0>> \o BigMul(a, Tail(b))))

\* <<a \div d, a % d>> for 0 < d <= LimbBase
RECURSIVE BigDivSmall(_, _)
BigDivSmall(a, d) ==
    IF a = <<>> THEN <<<<>>, 0>>
    ELSE LET hi == BigDivSmall(Tail(a), d)
             t  == hi[2] * LimbBase + Head(a)
             q  == t \div d
         IN  <<IF hi[1] = <<>> /\ q = 0 THEN <<>> ELSE <<q>> \o hi[1], t % d>>

BigBitLen(a) ==
    IF a = <<>> THEN 0 ELSE LimbBits * (Len(a) - 1) + BitLenSmall(a[Len(a)])

BigIsOdd(a) == a # <<>> /\ Head(a) % 2 = 1

\* a * 2^k
RECURSIVE BigShl(_, _)
BigShl(a, k) ==
    IF a = <<>> \/ k = 0 THEN a
    ELSE IF k >= LimbBits THEN <<0>> \o BigShl(a, k - LimbBits)
    ELSE BigMulSmall(a, 2^k)

\* -1, 0, 1 as a < b, a = b, a > b
RECURSIVE BigCmp(_, _)
BigCmp(a, b) ==
    IF Len(a) # Len(b) THEN (IF Len(a) < Len(b) THEN -1 ELSE 1)
    ELSE IF a = <<>> THEN 0
    ELSE LET n == Len(a)
         IN  IF a[n] # b[n] THEN (IF a[n] < b[n] THEN -1 ELSE 1)
             ELSE BigCmp(SubSeq(a, 1, n - 1), SubSeq(b, 1, n - 1))

\* a shifted right by s bits, with the guard bit (the last bit shifted out) and
\* the sticky flag (any lower bit shifted out, or the incoming sticky).
RECURSIVE BigShr(_, _, _, _)
BigShr(a, s, guard, sticky) ==
    IF s = 0 THEN [q |-> a, guard |-> guard, sticky |-> sticky]
    ELSE LET k  == Min(s, LimbBits)
             dr == BigDivSmall(a, 2^k)
             r  == dr[2]
         IN  BigShr(dr[1], s - k, r >= 2^(k - 1),
                    sticky \/ guard \/ (r % 2^(k - 1) # 0))

\* a / 2^s rounded to the nearest integer, ties to even
BigShrRoundEven(a, s, sticky) ==
    LET t == BigShr(a, s, FALSE, sticky)
    IN  IF t.guard /\ (t.sticky \/ BigIsOdd(t.q)) THEN BigAdd(t.q, <<1>>) ELSE t.q

(***************************************************************************)
(* IEEE-754 binary64 values >= 0: [m, e] stands for m * 2^e, m either zero *)
(* or a natural of exactly MantissaBits bits.  (The amounts of the model   *)
(* are far from the exponent limits: no overflow, no subnormals.)          *)
(***************************************************************************)
MantissaBits == 53

FZero == [m |-> <<>>, e |-> 0]

\* The double nearest to M * 2^e (+ a non-zero fraction below M's last bit
\* when sticky), ties to even.
FNormalize(M, e, sticky) ==
    IF M = <<>> THEN FZero
    ELSE LET n == BigBitLen(M)
         IN  IF n <= MantissaBits
             THEN [m |-> BigShl(M, MantissaBits - n), e |-> e - (MantissaBits - n)]
             ELSE LET q == BigShrRoundEven(M, n - MantissaBits, sticky)
                  IN  IF BigBitLen(q) > MantissaBits
                      THEN [m |-> BigDivSmall(q, 2)[1], e |-> e + (n - MantissaBits) + 1]
                      ELSE [m |-> q, e |-> e + (n - MantissaBits)]

\* The float Python holds for the decimal literal c/100 (c hundredths):
\* the double nearest to c / 100.
FromCents(c) ==
    IF c = 0 THEN FZero
    ELSE LET K  == (MantissaBits + 9) - BitLenSmall(c)
             dr == BigDivSmall(BigShl(BigFromInt(c), K), 100)
         IN  FNormalize(dr[1], 0 - K, dr[2] # 0)

\* x * (q * 2^qe): float multiplication by a float that is exactly q * 2^qe
FMulSmall(x, q, qe) == FNormalize(BigMulSmall(x.m, q), x.e + qe, FALSE)

\* x * y
FMul(x, y) ==
    IF x.m = <<>> \/ y.m = <<>> THEN FZero
    ELSE FNormalize(BigMul(x.m, y.m), x.e + y.e, FALSE)

\* x + y
FAdd(x, y) ==
    IF x.m = <<>> THEN y
    ELSE IF y.m = <<>> THEN x
    ELSE LET lo == Min(x.e, y.e)
         IN  FNormalize(BigAdd(BigShl(x.m, x.e - lo), BigShl(y.m, y.e - lo)), lo, FALSE)

\* x - y for x >= y
FSub(x, y) ==
    IF y.m = <<>> THEN x
    ELSE LET lo == Min(x.e, y.e)
         IN  FNormalize(BigSub(BigShl(x.m, x.e - lo), BigShl(y.m, y.e - lo)), lo, FALSE)

\* x >= y
FGe(x, y) ==
    IF y.m = <<>> THEN TRUE
    ELSE IF x.m = <<>> THEN FALSE
    ELSE IF x.e # y.e THEN x.e > y.e
    ELSE BigCmp(x.m, y.m) >= 0

\* Python's round(x, 2), as hundredths: the exact value of x times 100, rounded
\* to the nearest integer, ties to even (float.__round__ rounds the exact binary
\* value correctly).  The float round() returns is FromCents of it.
PyRound2(x) ==
    LET M == BigMulSmall(x.m, 100)
    IN  IF x.e >= 0 THEN BigToInt(BigShl(M, x.e))
        ELSE BigToInt(BigShrRoundEven(M, 0 - x.e, FALSE))

\* Python's int(x) for x >= 0: truncation
PyInt(x) ==
    IF x.e >= 0 THEN BigToInt(BigShl(x.m, x.e))
    ELSE BigToInt(BigShr(x.m, 0 - x.e, FALSE, FALSE).q)

(***************************************************************************)
(* Python dicts, in insertion order: sequences of [k |-> key, v |-> value] *)
(***************************************************************************)
DictKeys(d) == [i \in 1..Len(d) |-> d[i].k]

DictHas(d, key) == \E i \in 1..Len(d) : d[i].k = key

\* d.get(key, default)
DictGet(d, key, default) ==
    IF DictHas(d, key) THEN d[CHOOSE i \in 1..Len(d) : d[i].k = key].v ELSE default

\* d[key] = value
DictSet(d, key, value) ==
    IF DictHas(d, key)
    THEN [i \in 1..Len(d) |-> IF d[i].k = key THEN [k |-> key, v |-> value] ELSE d[i]]
    ELSE Append(d, [k |-> key, v |-> value])

\* sum(d.values())
RECURSIVE DictSum(_)
DictSum(d) == IF d = <<>> THEN 0 ELSE Head(d).v + DictSum(Tail(d))

(***************************************************************************)
(* Configuration.  Percentages are in hundredths of a percent (35.0 % is   *)
(* 3500), multipliers in halves (11.5 is 23): both are exact.  The "tier"  *)
(* attribute is carried by no computation and is left out.                 *)
(***************************************************************************)
Reels == 0..3

PAYLINES_4x4 ==
    [n \in 1..8 |->
        IF n <= 4 THEN [i \in 1..4 |-> <<n - 1, i - 1>>]
                  ELSE [i \in 1..4 |-> <<i - 1, n - 5>>]]

STRIP_LENGTH == 1000

CfgRow(name, mult, r0, r1, r2, r3, wild) ==
    [k |-> name, v |-> [mult |-> mult, r |-> <<r0, r1, r2, r3>>, is_wild |-> wild]]

CLASSIC_SYMBOL_CONFIG ==
    << CfgRow("orange",  23,   3500, 3800, 4100, 4400, FALSE),
       CfgRow("lemon",   48,   2800, 2600, 2400, 2200, FALSE),
       CfgRow("cherry",  114,  1800, 1600, 1400, 1200, FALSE),
       CfgRow("bar",     280,  1000, 900,  800,  700,  FALSE),
       CfgRow("wild",    400,  300,  300,  300,  300,  TRUE),
       CfgRow("seven",   1000, 120,  90,   60,   40,   FALSE),
       CfgRow("diamond", 2000, 80,   60,   40,   20,   FALSE) >>

\* WILD_NERF_PROBABILITY = 0.1 (percent), in hundredths of a percent
WILD_NERF_PROBABILITY == 10

\* int(pct * 10): the weight of a percentage
PctToWeight(pct) == PyInt(FMulSmall(FromCents(pct), 10, 0))

\* the symbols dict built from the table
TableSymbols(config_table) ==
    [i \in 1..Len(config_table) |->
        [k |-> config_table[i].k,
         v |-> [multiplier |-> config_table[i].v.mult,
                is_wild |-> config_table[i].v.is_wild]]]

\* the weights of one reel before normalization
TableWeights(config_table, reel_idx) ==
    [i \in 1..Len(config_table) |->
        [k |-> config_table[i].k, v |-> PctToWeight(config_table[i].v.r[reel_idx + 1])]]

\* reel_distributions[reel_idx]["orange"] += delta, which raises KeyError when
\* the table has no "orange"
AddToOrange(dist, delta) ==
    IF DictHas(dist, "orange")
    THEN [raised |-> FALSE, dist |-> DictSet(dist, "orange", DictGet(dist, "orange", 0) + delta)]
    ELSE [raised |-> TRUE, dist |-> dist]

NormalizeReelOnlyShortfall(dist) ==
    LET total == DictSum(dist)
    IN  IF total < STRIP_LENGTH THEN AddToOrange(dist, STRIP_LENGTH - total)
        ELSE [raised |-> FALSE, dist |-> dist]

\* "Normalize each reel to exactly 1000"
NormalizeReel(dist) ==
    LET total == DictSum(dist)
    IN  IF total < STRIP_LENGTH THEN AddToOrange(dist, STRIP_LENGTH - total)
        ELSE IF total > STRIP_LENGTH THEN AddToOrange(dist, 0 - (total - STRIP_LENGTH))
        ELSE [raised |-> FALSE, dist |-> dist]

\* build_config_from_table: the symbols dict and the reel distributions, or
\* raised when the normalization raises KeyError
build_config_from_table(config_table) ==
    LET norm == [reel_idx \in Reels |-> NormalizeReel(TableWeights(config_table, reel_idx))]
    IN  [raised |-> \E reel_idx \in Reels : norm[reel_idx].raised,
         symbols |-> TableSymbols(config_table),
         reel_distributions |-> [reel_idx \in Reels |-> norm[reel_idx].dist]]

CLASSIC_CONFIG == build_config_from_table(CLASSIC_SYMBOL_CONFIG)

Sym(name, mult, wild) == [k |-> name, v |-> [multiplier |-> mult, is_wild |-> wild]]

\* SLOT_CONFIGS without "classic", whose symbols and reel distributions are
\* built at startup (the variables symbols and reel_distributions)
OTHER_SLOT_CONFIGS ==
    "book" :> [reels |-> 5, rows |-> 4, max_paylines |-> 20,
        symbols |-> << Sym("ankh", 4, FALSE),
                       Sym("scarab", 6, FALSE),
                       Sym("eye", 10, FALSE),
                       Sym("anubis", 20, FALSE),
                       Sym("pharaoh", 50, FALSE),
                       Sym("book", 200, TRUE) >>] @@
    "diamond" :> [reels |-> 5, rows |-> 4, max_paylines |-> 20,
        symbols |-> << Sym("ruby", 4, FALSE),
                       Sym("emerald", 6, FALSE),
                       Sym("sapphire", 10, FALSE),
                       Sym("amethyst", 16, FALSE),
                       Sym("diamond", 40, FALSE),
                       Sym("crown", 100, FALSE),
                       Sym("wild_diamond", 200, TRUE) >>] @@
    "cyber" :> [reels |-> 5, rows |-> 4, max_paylines |-> 20,
        symbols |-> << Sym("chip", 4, FALSE),
                       Sym("circuit", 6, FALSE),
                       Sym("robot", 10, FALSE),
                       Sym("ai", 20, FALSE),
                       Sym("cyber", 50, FALSE),
                       Sym("matrix", 100, TRUE) >>] @@
    "viking" :> [reels |-> 5, rows |-> 4, max_paylines |-> 20,
        symbols |-> << Sym("axe", 4, FALSE),
                       Sym("shield", 6, FALSE),
                       Sym("helmet", 10, FALSE),
                       Sym("ship", 20, FALSE),
                       Sym("thor", 50, FALSE),
                       Sym("odin", 100, TRUE) >>] @@
    "fortune" :> [reels |-> 5, rows |-> 4, max_paylines |-> 20,
        symbols |-> << Sym("fan", 4, FALSE),
                       Sym("lantern", 6, FALSE),
                       Sym("koi", 10, FALSE),
                       Sym("dragon", 20, FALSE),
                       Sym("lucky", 50, FALSE),
                       Sym("wild", 100, TRUE) >>] @@
    "pirate" :> [reels |-> 5, rows |-> 4, max_paylines |-> 20,
        symbols |-> << Sym("compass", 4, FALSE),
                       Sym("map", 6, FALSE),
                       Sym("parrot", 10, FALSE),
                       Sym("ship", 20, FALSE),
                       Sym("captain", 50, FALSE),
                       Sym("skull", 200, TRUE) >>] @@
    "mythic" :> [reels |-> 5, rows |-> 4, max_paylines |-> 20,
        symbols |-> << Sym("scroll", 4, FALSE),
                       Sym("lyre", 6, FALSE),
                       Sym("athena", 10, FALSE),
                       Sym("poseidon", 20, FALSE),
                       Sym("hades", 40, FALSE),
                       Sym("zeus", 100, TRUE) >>] @@
    "inferno" :> [reels |-> 5, rows |-> 4, max_paylines |-> 20,
        symbols |-> << Sym("ember", 4, FALSE),
                       Sym("flame", 6, FALSE),
                       Sym("phoenix", 16, FALSE),
                       Sym("demon", 30, FALSE),
                       Sym("devil", 60, FALSE),
                       Sym("inferno", 200, TRUE) >>] @@
    "battle" :> [reels |-> 5, rows |-> 4, max_paylines |-> 20,
        symbols |-> << Sym("sword", 4, FALSE),
                       Sym("shield", 6, FALSE),
                       Sym("armor", 10, FALSE),
                       Sym("knight", 20, FALSE),
                       Sym("king", 50, FALSE),
                       Sym("trophy", 100, TRUE) >>]

SlotIds == {"classic"} \cup DOMAIN OTHER_SLOT_CONFIGS

(***************************************************************************)
(* Payline evaluator.  A grid is a sequence of rows, each a sequence of    *)
(* symbols; the code's grid[r][c] is grid[r + 1][c + 1].                   *)
(***************************************************************************)
\* symbols.get(sym, {}).get("is_wild", False)
IsWildSymbol(symbols, sym) == DictGet(symbols, sym, [is_wild |-> FALSE]).is_wild

LineSymbols(grid, line_path) ==
    [i \in 1..Len(line_path) |-> grid[line_path[i][1] + 1][line_path[i][2] + 1]]

BaseSymbolFirstCell(line_symbols, symbols) == line_symbols[1]

\* "Find the base symbol (first non-wild from left/top)"; "wild" when all are wild
BaseSymbol(line_symbols, symbols) ==
    LET plain == {i \in 1..Len(line_symbols) : ~IsWildSymbol(symbols, line_symbols[i])}
    IN  IF plain = {} THEN "wild"
        ELSE line_symbols[CHOOSE i \in plain : \A j \in plain : i <= j]

NoWin == [win |-> FALSE]

CheckPaylineWinFirstThree(grid, line_path, symbols) ==
    LET line_symbols == LineSymbols(grid, line_path)
        base_symbol  == BaseSymbol(line_symbols, symbols)
    IN  IF \E i \in 1..3 :
               line_symbols[i] # base_symbol /\ ~IsWildSymbol(symbols, line_symbols[i])
        THEN NoWin
        ELSE [win |-> TRUE, symbol |-> base_symbol,
              matched_positions |-> line_path, line_length |-> Len(line_path)]

\* check_payline_win: NoWin stands for None
check_payline_win(grid, line_path, symbols) ==
    IF Len(line_path) < 4 THEN NoWin
    ELSE LET line_symbols == LineSymbols(grid, line_path)
             base_symbol  == BaseSymbol(line_symbols, symbols)
         IN  IF \E i \in 1..Len(line_symbols) :
                    line_symbols[i] # base_symbol /\ ~IsWildSymbol(symbols, line_symbols[i])
             THEN NoWin
             ELSE [win |-> TRUE, symbol |-> base_symbol,
                   matched_positions |-> line_path, line_length |-> Len(line_path)]

\* symbols.get(win_info["symbol"], {}).get("multiplier", 1.0), in halves
SymbolMultiplier(symbols, sym) == DictGet(symbols, sym, [multiplier |-> 2]).multiplier

RECURSIVE ValidateUntilFirstWin(_, _, _)
ValidateUntilFirstWin(grid, active_lines, symbols) ==
    IF active_lines = <<>> THEN <<>>
    ELSE LET line_num == Head(active_lines)
         IN  IF line_num \notin DOMAIN PAYLINES_4x4
             THEN ValidateUntilFirstWin(grid, Tail(active_lines), symbols)
             ELSE LET win_info == check_payline_win(grid, PAYLINES_4x4[line_num], symbols)
                  IN  IF win_info.win
                      THEN << [line_number |-> line_num,
                               line_path   |-> win_info.matched_positions,
                               symbol      |-> win_info.symbol,
                               match_count |-> win_info.line_length,
                               multiplier  |-> SymbolMultiplier(symbols, win_info.symbol),
                               line_type   |-> IF win_info.line_length = 5
                                               THEN "horizontal" ELSE "vertical"] >>
                      ELSE ValidateUntilFirstWin(grid, Tail(active_lines), symbols)

\* validate_all_paylines: the winning paylines, in the order of active_lines
RECURSIVE validate_all_paylines(_, _, _)
validate_all_paylines(grid, active_lines, symbols) ==
    IF active_lines = <<>> THEN <<>>
    ELSE LET line_num == Head(active_lines)
             rest     == validate_all_paylines(grid, Tail(active_lines), symbols)
         IN  IF line_num \notin DOMAIN PAYLINES_4x4 THEN rest
             ELSE LET win_info == check_payline_win(grid, PAYLINES_4x4[line_num], symbols)
                  IN  IF win_info.win
                      THEN << [line_number |-> line_num,
                               line_path   |-> win_info.matched_positions,
                               symbol      |-> win_info.symbol,
                               match_count |-> win_info.line_length,
                               multiplier  |-> SymbolMultiplier(symbols, win_info.symbol),
                               line_type   |-> IF win_info.line_length = 5
                                               THEN "horizontal" ELSE "vertical"] >> \o rest
                      ELSE rest

(***************************************************************************)
(* Reel strips and the grid sampler                                        *)
(***************************************************************************)
\* A strip is the sequence of its symbols: the code's strip[i] is strip[i + 1].
\* The strip after "strip.extend([symbol] * weight)" over the dict
\* ([symbol] * weight is empty for weight <= 0)
RECURSIVE Expanded(_)
Expanded(dist) ==
    IF dist = <<>> THEN <<>>
    ELSE [i \in 1..Max(Head(dist).v, 0) |-> Head(dist).k] \o Expanded(Tail(dist))

\* the strip before random.shuffle: expanded, padded with "orange" up to
\* STRIP_LENGTH and cut to STRIP_LENGTH
StripBeforeShuffle(dist) ==
    LET strip  == Expanded(dist)
        padded == strip \o [i \in 1..Max(STRIP_LENGTH - Len(strip), 0) |-> "orange"]
    IN  SubSeq(padded, 1, STRIP_LENGTH)

\* random.shuffle(strip): the permutations the model draws from
ShuffleKeys == {"identity", "reversed"}

ResampleWithReplacement(strip, key) ==
    [i \in 1..Len(strip) |-> strip[((2 * i) % Len(strip)) + 1]]

Shuffle(strip, key) ==
    IF key = "identity" THEN strip
    ELSE [i \in 1..Len(strip) |-> strip[Len(strip) + 1 - i]]

\* int(WILD_NERF_PROBABILITY * 10)
NerfWeight == PctToWeight(WILD_NERF_PROBABILITY)

ApplyWildNerfNoRedistribution(base_dist) ==
    IF DictHas(base_dist, "wild") THEN DictSet(base_dist, "wild", NerfWeight) ELSE base_dist

\* "Apply Wild nerf if this is the nerfed reel": the body of the if, on the copy
ApplyWildNerf(base_dist) ==
    IF DictHas(base_dist, "wild")
    THEN LET original_wild_weight == DictGet(base_dist, "wild", 0)
             weight_reduction     == original_wild_weight - NerfWeight
             nerfed               == DictSet(base_dist, "wild", NerfWeight)
         IN  DictSet(nerfed, "orange", DictGet(nerfed, "orange", 0) + weight_reduction)
    ELSE base_dist

SharedAfterNerfWithoutCopy(dists, col_idx, nerfed_dist) ==
    IF col_idx \in DOMAIN dists THEN [dists EXCEPT ![col_idx] = nerfed_dist] ELSE dists

\* the shared reel_distributions after the nerf of reel col_idx: base_dist is a
\* .copy() of the reel's dict, so the writes of the nerf do not reach it
SharedAfterNerf(dists, col_idx, nerfed_dist) == dists

SpinDistributionWithoutNerf(dists, col_idx, nerfed) ==
    IF col_idx \in DOMAIN dists THEN dists[col_idx]
    ELSE IF 0 \in DOMAIN dists THEN dists[0] ELSE <<>>

\* reel_distributions.get(col_idx, reel_distributions.get(0, {})).copy(), nerfed
\* for the nerfed reel
SpinDistribution(dists, col_idx, nerfed) ==
    LET base_dist == IF col_idx \in DOMAIN dists THEN dists[col_idx]
                     ELSE IF 0 \in DOMAIN dists THEN dists[0] ELSE <<>>
    IN  IF col_idx = nerfed THEN ApplyWildNerf(base_dist) ELSE base_dist

VisibleSymbolsWithoutWrap(strip, stop_position, rows) ==
    [row_idx \in 0..(rows - 1) |-> strip[Min(stop_position + row_idx, Len(strip) - 1) + 1]]

\* the visible symbols of one reel: rows consecutive symbols from the stop
VisibleSymbols(strip, stop_position, rows) ==
    [row_idx \in 0..(rows - 1) |-> strip[((stop_position + row_idx) % Len(strip)) + 1]]

\* "Convert from column-major (reels) to row-major (grid) format"
GridOfReelStops(reel_stops, rows, cols) ==
    [r \in 1..rows |-> [c \in 1..cols |-> reel_stops[c - 1][r - 1]]]

\* The stop positions the model draws from, out of randint(0, len(strip) - 1):
\* the positions where a run of a symbol of StopSymbols begins on the strip
\* (read as a ring), and the last position of the strip.
StopSymbols == {"orange", "wild"}

StopChoices(strip) ==
    {p \in 0..(Len(strip) - 1) :
        /\ strip[p + 1] \in StopSymbols
        /\ strip[((p + Len(strip) - 1) % Len(strip)) + 1] # strip[p + 1]}
    \cup {Len(strip) - 1}

\* The grids the model draws from, out of the uniform fallback
\* [[random.choice(symbol_list) for _ in range(cols)] for _ in range(rows)]:
\* the cells of one shape hold one symbol, the others another.
UniformShapes ==
    { {},
      {<<0, c>> : c \in 0..4},
      {<<r, 0>> : r \in 0..3},
      {<<r, c>> : r \in 0..3, c \in {0, 2}},
      {<<0, 3>>} }

UniformGrid(shape, a, b, rows, cols) ==
    [r \in 1..rows |-> [c \in 1..cols |-> IF <<r - 1, c - 1>> \in shape THEN a ELSE b]]

(***************************************************************************)
(* Spin outcome calculator                                                 *)
(***************************************************************************)
TotalBetDistinctLines(bet_per_line, active_lines) ==
    PyRound2(FMulSmall(FromCents(bet_per_line),
                       Cardinality({active_lines[i] : i \in 1..Len(active_lines)}), 0))

\* round(bet_per_line * len(active_lines), 2)
TotalBet(bet_per_line, active_lines) ==
    PyRound2(FMulSmall(FromCents(bet_per_line), Len(active_lines), 0))

\* round(bet_per_line * wp["multiplier"], 2); the multiplier is in halves
LinePayout(bet_per_line, multiplier) ==
    PyRound2(FMulSmall(FromCents(bet_per_line), multiplier, -1))

\* wp["payout"] = line_payout, for each winning payline
WithPayouts(paylines, bet_per_line) ==
    [i \in 1..Len(paylines) |->
        [line_number |-> paylines[i].line_number,
         line_path   |-> paylines[i].line_path,
         symbol      |-> paylines[i].symbol,
         match_count |-> paylines[i].match_count,
         multiplier  |-> paylines[i].multiplier,
         line_type   |-> paylines[i].line_type,
         payout      |-> LinePayout(bet_per_line, paylines[i].multiplier)]]

\* total_win after "total_win += line_payout" over the first n paylines
RECURSIVE SumPayouts(_, _)
SumPayouts(paylines, n) ==
    IF n = 0 THEN FZero
    ELSE FAdd(SumPayouts(paylines, n - 1), FromCents(paylines[n].payout))

TotalWinFirstLine(paylines) ==
    IF paylines = <<>> THEN 0 ELSE PyRound2(FromCents(paylines[1].payout))

\* round(total_win, 2)
TotalWin(paylines) == PyRound2(SumPayouts(paylines, Len(paylines)))

\* total_win >= (total_bet * 20), on the floats
IsJackpot(total_win, total_bet) ==
    FGe(FromCents(total_win), FMulSmall(FromCents(total_bet), 20, 0))

\* the dict calculate_slot_result returns (its "winning_paylines" is the
\* variable winning_paylines, its "reels" the variable grid)
SlotResult(paylines, bet, lines) ==
    LET total_bet == TotalBet(bet, lines)
        total_win == TotalWin(paylines)
    IN  [total_bet  |-> total_bet,
         win_amount |-> total_win,
         is_win     |-> total_win > 0,
         is_jackpot |-> IsJackpot(total_win, total_bet)]

(***************************************************************************)
(* State                                                                   *)
(***************************************************************************)
VARIABLES
    pc,                  \* "startup", "failed", "serving", "strips_built", "returned"
    config_table,        \* the table given to build_config_from_table
    symbols,             \* CLASSIC_SYMBOLS
    reel_distributions,  \* CLASSIC_REEL_DISTRIBUTIONS
    slot_id,             \* the arguments of the call: slot_id,
    bet_per_line,        \*   bet_per_line (hundredths)
    active_lines,        \*   and active_lines (a list of line numbers)
    total_bet,           \* the total_bet spin_slot computes before the call
    nerfed_reel,         \* the reel nerfed in the call (-1: none)
    spin_distributions,  \* the weight map each reel's strip was built from
    reel_strips,         \* the strip built for each reel in the call
    stop_positions,      \* the stop position drawn for each reel in the call
    grid,                \* the grid of the call
    win_info,            \* what check_payline_win returned
    winning_paylines,    \* the winning paylines of the call
    result,              \* the totals and flags calculate_slot_result returns
    bet_request,         \* the SlotBetRequest of the request spin_slot serves
    user,                \* the document get_current_user gave spin_slot
    db_user,             \* the user's document in db.users
    bet_history,         \* the user's entries in db.bet_history
    quest_progress,      \* "progress" of the user's document in db.user_quests
    response,            \* the response to the request
    twin_call,           \* a second call that met the same random draws
    spins,               \* the locals of the spin computations running concurrently
    rtp,                \* the computation of the expected return of a classic spin
    requests,           \* the locals of the spin_slot requests of one user under way
    sim,                \* the simulation harness: its strips and the grid it generates
    jackpot,            \* jackpot_state, jackpot_lock, the requests and the accounts
    trading,            \* db.trades, the accounts and items traded, the trade requests
    claiming             \* the user's quests and rewards, the claim_quest_reward requests

vars == <<pc, config_table, symbols, reel_distributions, slot_id, bet_per_line,
          active_lines, total_bet, nerfed_reel, spin_distributions, reel_strips,
          stop_positions, grid, win_info, winning_paylines, result,
          bet_request, user, db_user, bet_history, quest_progress, response,
          twin_call, spins, rtp, requests, sim, jackpot, trading, claiming>>

account_vars == <<bet_request, user, db_user, bet_history, quest_progress, response>>

config_vars == <<config_table, symbols, reel_distributions>>

\* the state of the services beside the spin computation
service_vars == <<rtp, requests, sim, jackpot, trading, claiming>>

\* the services beside each service
beside_rtp == <<requests, sim, jackpot, trading, claiming>>

beside_requests == <<rtp, sim, jackpot, trading, claiming>>

beside_sim == <<rtp, requests, jackpot, trading, claiming>>

beside_jackpot == <<rtp, requests, sim, trading, claiming>>

beside_trading == <<rtp, requests, sim, jackpot, claiming>>

beside_claiming == <<rtp, requests, sim, jackpot, trading>>

\* the state of the spin computation and of spin_slot
outcome_vars ==
    <<pc, config_table, symbols, reel_distributions, slot_id, bet_per_line,
      active_lines, total_bet, nerfed_reel, spin_distributions, reel_strips,
      stop_positions, grid, win_info, winning_paylines, result,
      bet_request, user, db_user, bet_history, quest_progress, response,
      twin_call, spins>>

NoResult == [total_bet |-> 0, win_amount |-> 0, is_win |-> FALSE, is_jackpot |-> FALSE]

NoTwin == [bet_per_line |-> 0, active_lines |-> <<>>, reels |-> <<>>]

\* the spin computations that run concurrently
Procs == {1, 2}

\* the locals of a computation that is not running
IdleSpin ==
    [pc |-> "idle", bet_per_line |-> 0, active_lines |-> <<>>, nerfed_reel |-> -1,
     reel_strips |-> <<>>, stop_positions |-> <<>>, grid |-> <<>>,
     winning_paylines |-> <<>>, result |-> NoResult]

NoSpins == [p \in Procs |-> IdleSpin]

\* SLOT_CONFIGS[slot]
SlotConfig(slot) ==
    IF slot = "classic"
    THEN [reels |-> 4, rows |-> 4, max_paylines |-> 8, symbols |-> symbols]
    ELSE OTHER_SLOT_CONFIGS[slot]

NoRequest == [slot_id |-> "", bet_per_line |-> 0, active_lines |-> <<>>]

NoUser == [balance |-> 0, xp |-> 0, level |-> 0, total_wagered |-> FZero]

NoResponse == [status |-> 0, detail |-> "", new_balance |-> 0, xp_gained |-> 0]

\* no expected return is being computed
NoRtp == [pc |-> "idle", bet_per_line |-> 0, nerfed_reel |-> 0, line_num |-> 0,
          sum |-> <<>>]

\* the locals of a spin_slot request that has not arrived
IdleRequest ==
    [pc |-> "idle", bet_request |-> NoRequest, user |-> NoUser, total_bet |-> 0,
     result |-> NoResult, status |-> 0]

NoRequests == [p \in Procs |-> IdleRequest]

\* the harness before its module is loaded; "" stands for None in the grid
NoSim ==
    [pc |-> "unloaded", key |-> "", nerfed_reel |-> -1, col_idx |-> 0, row_idx |-> 0,
     stop_position |-> 0, grid |-> [r \in 1..4 |-> [c \in 1..4 |-> ""]]]

\* JACKPOT_MAX_PARTICIPANTS, JACKPOT_MIN_PARTICIPANTS
JACKPOT_MAX_PARTICIPANTS == 50

JACKPOT_MIN_PARTICIPANTS == 2

\* JACKPOT_WAIT_SECONDS, JACKPOT_COUNTDOWN_SECONDS
JACKPOT_WAIT_SECONDS == 600

JACKPOT_COUNTDOWN_SECONDS == 30

\* the jackpot rounds the model lets begin
MaxRounds == 2

JackpotRounds == 1..MaxRounds

\* the users whose join requests the model follows
JackpotPlayers == 1..2

\* the users seated in the round that is nearly full
SeatedUsers == (Cardinality(JackpotPlayers) + 1)..(JACKPOT_MAX_PARTICIPANTS + 1)

\* a join_jackpot request that is not under way
NoJoin == [pc |-> "idle", bet_amount |-> 0, user |-> [balance |-> FZero, xp |-> 0, level |-> 0]]

\* the document in db.users of a user with 3.0 left: balance 3.0, xp 0, level 1
NewJackpotUser == [balance |-> FromCents(300), xp |-> 0, level |-> 1]

\* what the jackpot did to the balances for one round: the sums debited on
\* joining, credited to the winner and refunded, and how often it credited
\* and refunded
NoLedger == [debited |-> 0, credited |-> 0, refunded |-> 0, awards |-> 0, refunds |-> 0]

\* jackpot_state and jackpot_lock when the module is loaded, the clock, the
\* reset tasks, the join requests, db.users, db.bet_history, db.jackpot_history
NoJackpot ==
    [state |-> "idle", jackpot_id |-> 0, participants |-> <<>>, total_pot |-> 0,
     started_at |-> -1, countdown_end |-> -1, winner |-> 0, winner_index |-> -1,
     lock |-> "", now |-> 0, issued |-> 0, reset_tasks |-> <<>>,
     joins |-> [u \in JackpotPlayers |-> NoJoin],
     users |-> [u \in JackpotPlayers |-> NewJackpotUser],
     bet_history |-> <<>>, jackpot_history |-> <<>>,
     ledger |-> [r \in JackpotRounds |-> NoLedger]]

\* the participant entry join_jackpot appends
Participant(user_id, bet_amount) == [user_id |-> user_id, bet_amount |-> bet_amount]

\* the pending entry join_jackpot inserts into db.bet_history
PendingBet(user_id, bet_amount, jackpot_id) ==
    [user_id |-> user_id, jackpot_id |-> jackpot_id, transaction_type |-> "bet",
     amount |-> 0 - bet_amount, result |-> "pending"]

\* TRADE_G_FEE_PERCENT = 0.30
TRADE_G_FEE_PERCENT == FromCents(30)

\* the trade_ids: the trade the requests are about and the one a counter creates
TradeIds == {1, 2}

\* the two users of the trade
TradeUsers == {1, 2}

\* no document with the trade_id in db.trades
NoTrade ==
    [status |-> "none", initiator_id |-> 0, recipient_id |-> 0,
     initiator |-> [items |-> <<>>, g_amount |-> 0],
     recipient |-> [items |-> <<>>, g_amount |-> 0]]

\* a trade request that has not been sent
NoTradeCall ==
    [pc |-> "idle", handler |-> "", user_id |-> 0, user_balance |-> FZero,
     trade |-> NoTrade, offered_g |-> 0, detail |-> ""]

\* db.trades, the balances in db.users, the owners in db.user_inventory before
\* any trade, the requests under way and the transfers carried out
NoTrading ==
    [trades |-> [t \in TradeIds |-> NoTrade],
     balance |-> [u \in TradeUsers |-> FZero],
     opening |-> [u \in TradeUsers |-> 0],
     owner |-> <<>>,
     calls |-> [p \in Procs |-> NoTradeCall],
     transfers |-> <<>>]

\* rewards_given before claim_quest_reward gave anything
NoRewards == [xp |-> 0, g |-> 0, a |-> 0, game_pass_xp |-> 0]

\* a claim_quest_reward request that has not been sent
NoClaim ==
    [pc |-> "idle", quest_id |-> "", detail |-> "", rewards |-> NoRewards,
     quest_data |-> [progress |-> <<>>, daily_a_rewards |-> 0, quests_since_a |-> 0]]

\* the user's document in db.user_quests and in db.users before any quest
\* was played, and the claim requests
NoClaiming ==
    [progress |-> <<>>, daily_a_rewards |-> 0, quests_since_a |-> 0,
     user |-> [xp |-> 0, balance |-> FZero, balance_a |-> 0,
               game_pass_level |-> 1, game_pass_xp |-> 0],
     calls |-> [p \in Procs |-> NoClaim]]

\* no service is under way, but for the one named
NoServicesBut(service) ==
    /\ (service = "rtp" \/ rtp = NoRtp)
    /\ (service = "requests" \/ requests = NoRequests)
    /\ (service = "sim" \/ sim = NoSim)
    /\ (service = "jackpot" \/ jackpot = NoJackpot)
    /\ (service = "trading" \/ trading = NoTrading)
    /\ (service = "claiming" \/ claiming = NoClaiming)

NoServices == NoServicesBut("")

\* no call of calculate_slot_result is under way, and no service but the one named
NoCallBut(service) ==
    /\ slot_id = "classic"
    /\ bet_per_line = 0
    /\ active_lines = <<>>
    /\ total_bet = 0
    /\ nerfed_reel = -1
    /\ spin_distributions = <<>>
    /\ reel_strips = <<>>
    /\ stop_positions = <<>>
    /\ grid = <<>>
    /\ win_info = NoWin
    /\ winning_paylines = <<>>
    /\ result = NoResult
    /\ twin_call = NoTwin
    /\ spins = NoSpins
    /\ NoServicesBut(service)

NoCall == NoCallBut("")

\* the document of a user who never played: balance 10.0, xp 0, level 1
\* (server.py 2164-2175)
NewUser == [balance |-> 1000, xp |-> 0, level |-> 1, total_wagered |-> FZero]

NoAccount ==
    /\ bet_request = NoRequest
    /\ user = NoUser
    /\ db_user = NewUser
    /\ bet_history = <<>>
    /\ quest_progress = <<>>
    /\ response = NoResponse

(***************************************************************************)
(* Bounds of the inputs                                                    *)
(***************************************************************************)
MaxBetCents == 2

\* the largest percentage (hundredths of a percent) tried for one table entry
MaxEntryPct == 40

Bets == 1..MaxBetCents

\* the lists of active lines requests carry; a slot accepts those within
\* 1..max_paylines (spin_slot, server.py 2604-2611)
LineLists ==
    { <<1, 2, 3, 4, 5, 6, 7, 8>>, <<1, 2, 3, 4, 5, 6, 7>>, <<3, 3>>, <<2, 20>> }

ActiveLineChoices(slot) ==
    {l \in LineLists : \A i \in 1..Len(l) : l[i] >= 1 /\ l[i] <= SlotConfig(slot).max_paylines}

\* the configuration tables of SpecConfig: the classic table with the "orange"
\* percentage of each reel either as configured, or filling the reel to exactly
\* 100 %, or 2.55 % beyond; the classic table without its "orange" row; the
\* classic table with "lemon" at 90 % on reel 0; the classic table with each
\* percentage up to MaxEntryPct for "diamond" on reel 3
OtherPct(reel_idx) ==
    LET rest == SelectSeq(CLASSIC_SYMBOL_CONFIG, LAMBDA row : row.k # "orange")
    IN  DictSum([i \in 1..Len(rest) |-> [k |-> rest[i].k, v |-> rest[i].v.r[reel_idx + 1]]])

OrangePctChoices(reel_idx) ==
    { CLASSIC_SYMBOL_CONFIG[1].v.r[reel_idx + 1],
      10000 - OtherPct(reel_idx),
      10000 - OtherPct(reel_idx) + 255 }

ConfigTables ==
    { [CLASSIC_SYMBOL_CONFIG EXCEPT ![1].v.r = <<p0, p1, p2, p3>>] :
        p0 \in OrangePctChoices(0), p1 \in OrangePctChoices(1),
        p2 \in OrangePctChoices(2), p3 \in OrangePctChoices(3) }
    \cup { Tail(CLASSIC_SYMBOL_CONFIG) }
    \cup { [CLASSIC_SYMBOL_CONFIG EXCEPT ![2].v.r[1] = 9000] }
    \cup { [CLASSIC_SYMBOL_CONFIG EXCEPT ![7].v.r[4] = pct] : pct \in 0..MaxEntryPct }

(***************************************************************************)
(* Startup: CLASSIC_SYMBOLS, CLASSIC_REEL_DISTRIBUTIONS =                  *)
(*          build_config_from_table(CLASSIC_SYMBOL_CONFIG)                 *)
(***************************************************************************)
Startup ==
    /\ pc = "startup"
    /\ LET built == build_config_from_table(config_table)
       IN  IF built.raised
           THEN /\ pc' = "failed"
                /\ UNCHANGED <<symbols, reel_distributions>>
           ELSE /\ pc' = "serving"
                /\ symbols' = built.symbols
                /\ reel_distributions' = built.reel_distributions
    /\ UNCHANGED <<config_table, slot_id, bet_per_line, active_lines, total_bet,
                   nerfed_reel, spin_distributions, reel_strips, stop_positions, grid,
                   win_info, winning_paylines, result, account_vars, twin_call, spins, service_vars>>

InitConfig ==
    /\ pc = "startup"
    /\ config_table \in ConfigTables
    /\ symbols = <<>>
    /\ reel_distributions = <<>>
    /\ NoCall
    /\ NoAccount

SpecConfig == InitConfig /\ [][Startup]_vars

(***************************************************************************)
(* spin_slot past its validation (a slot of SLOT_CONFIGS, a bet of at      *)
(* least 0.01, a non-empty list of lines within 1..max_paylines): its      *)
(* total_bet and calculate_slot_result(bet_per_line, active_lines, slot_id)*)
(***************************************************************************)
\* generate_random_grid_with_wild_nerf with nerfed_reel = nerfed: the weight
\* map each reel's strip is built from
WildNerfDistributions(cols, nerfed) ==
    [c \in 0..(cols - 1) |-> SpinDistribution(reel_distributions, c, nerfed)]

\* the stops the model draws for the 4 reels: one of each reel's choices
WildNerfStops(strips) ==
    StopChoices(strips[0]) \X StopChoices(strips[1])
        \X StopChoices(strips[2]) \X StopChoices(strips[3])

\* the strip built for each reel: expanded, padded, cut and shuffled
WildNerfStrips(cols, nerfed, key) ==
    LET dists == WildNerfDistributions(cols, nerfed)
    IN  [c \in 0..(cols - 1) |-> Shuffle(StripBeforeShuffle(dists[c]), key)]

\* the grid of generate_random_grid_with_wild_nerf from the strips and the stops
WildNerfGrid(rows, cols, strips, stop) ==
    GridOfReelStops([c \in 0..(cols - 1) |->
                        VisibleSymbols(strips[c], stop[c + 1], rows)],
                    rows, cols)

\* place_full_line_win(grid, line_num, symbol, symbols)
place_full_line_win(g, line_num, symbol) ==
    IF line_num \notin DOMAIN PAYLINES_4x4 THEN g
    ELSE [r \in DOMAIN g |->
            [c \in DOMAIN g[r] |->
                IF \E i \in DOMAIN PAYLINES_4x4[line_num] :
                      PAYLINES_4x4[line_num][i] = <<r - 1, c - 1>>
                THEN symbol ELSE g[r][c]]]

ReturnedGridWithPlacedWin(g, lines, slot_symbols) ==
    place_full_line_win(g, lines[1], slot_symbols[1].k)

\* "reels": grid, the grid of step 1 as the sampler gave it: nothing is placed
\* on it (place_full_line_win, break_accidental_wins, map_outcome_to_reels are
\* not called by calculate_slot_result)
ReturnedGrid(g, lines, slot_symbols) == g

\* Steps 2 and 3, from the grid on
Evaluate(slot, bet, lines, g) ==
    LET paid == WithPayouts(validate_all_paylines(g, lines, SlotConfig(slot).symbols), bet)
    IN  /\ slot_id' = slot
        /\ bet_per_line' = bet
        /\ active_lines' = lines
        /\ total_bet' = TotalBet(bet, lines)
        /\ grid' = ReturnedGrid(g, lines, SlotConfig(slot).symbols)
        /\ winning_paylines' = paid
        /\ result' = SlotResult(paid, bet, lines)
        /\ pc' = "returned"
        /\ UNCHANGED <<config_table, symbols, win_info, account_vars>>

\* the classic slot, from the strips on: the stops, the grid, steps 2 and 3
ClassicSpinFromStrips(nerfed, strips) ==
    LET config == SlotConfig("classic")
    IN  \E stop \in WildNerfStops(strips) :
          /\ nerfed_reel' = nerfed
          /\ stop_positions' = stop
          /\ spin_distributions' = WildNerfDistributions(config.reels, nerfed)
          /\ reel_distributions' =
                SharedAfterNerf(reel_distributions, nerfed,
                                WildNerfDistributions(config.reels, nerfed)[nerfed])
          /\ reel_strips' = strips
          /\ UNCHANGED <<twin_call, spins, service_vars>>
          /\ \E bet \in Bets, lines \in ActiveLineChoices("classic") :
                Evaluate("classic", bet, lines,
                         WildNerfGrid(config.rows, config.reels, strips, stop))

\* the classic slot: generate_random_grid_with_wild_nerf
ClassicSpin ==
    \E nerfed \in 0..(SlotConfig("classic").reels - 1), key \in ShuffleKeys :
        ClassicSpinFromStrips(nerfed,
                              WildNerfStrips(SlotConfig("classic").reels, nerfed, key))

\* generate_random_grid without reel strips: the uniform fallback
UniformSpin(slot) ==
    LET config == SlotConfig(slot)
        symbol_list == DictKeys(config.symbols)
    IN  \E shape \in UniformShapes, i \in 1..Len(symbol_list), j \in 1..Len(symbol_list) :
          /\ UNCHANGED <<reel_distributions, nerfed_reel, spin_distributions,
                         reel_strips, stop_positions, twin_call, spins, service_vars>>
          /\ \E bet \in Bets, lines \in ActiveLineChoices(slot) :
                Evaluate(slot, bet, lines,
                         UniformGrid(shape, symbol_list[i], symbol_list[j],
                                     config.rows, config.reels))

CalculateSlotResult ==
    /\ pc = "serving"
    /\ \E slot \in SlotIds :
          IF slot = "classic" /\ reel_distributions # <<>>
          THEN ClassicSpin
          ELSE UniformSpin(slot)

\* the request is answered: its locals are gone
Return ==
    /\ pc = "returned"
    /\ pc' = "serving"
    /\ slot_id' = "classic"
    /\ bet_per_line' = 0
    /\ active_lines' = <<>>
    /\ total_bet' = 0
    /\ nerfed_reel' = -1
    /\ spin_distributions' = <<>>
    /\ reel_strips' = <<>>
    /\ stop_positions' = <<>>
    /\ grid' = <<>>
    /\ win_info' = NoWin
    /\ winning_paylines' = <<>>
    /\ result' = NoResult
    /\ bet_request' = NoRequest
    /\ user' = NoUser
    /\ response' = NoResponse
    /\ twin_call' = NoTwin
    /\ UNCHANGED <<spins, service_vars>>
    /\ UNCHANGED <<config_vars, db_user, bet_history, quest_progress>>

Init ==
    /\ pc = "serving"
    /\ config_table = CLASSIC_SYMBOL_CONFIG
    /\ symbols = CLASSIC_CONFIG.symbols
    /\ reel_distributions = CLASSIC_CONFIG.reel_distributions
    /\ NoCall
    /\ NoAccount

Next == CalculateSlotResult \/ Return

Spec == Init /\ [][Next]_vars

(***************************************************************************)
(* The grid sampler of the classic slot on its own, in two steps: the       *)
(* nerfed reel and the strips, then the stops and the windows               *)
(***************************************************************************)
BuildReelStrips ==
    /\ pc = "serving"
    /\ \E nerfed \in 0..(SlotConfig("classic").reels - 1), key \in ShuffleKeys :
          /\ nerfed_reel' = nerfed
          /\ spin_distributions' =
                WildNerfDistributions(SlotConfig("classic").reels, nerfed)
          /\ reel_strips' = WildNerfStrips(SlotConfig("classic").reels, nerfed, key)
          /\ reel_distributions' =
                SharedAfterNerf(reel_distributions, nerfed,
                                WildNerfDistributions(SlotConfig("classic").reels,
                                                      nerfed)[nerfed])
    /\ pc' = "strips_built"
    /\ UNCHANGED <<config_table, symbols, slot_id, bet_per_line, active_lines, total_bet,
                   stop_positions, grid, win_info, winning_paylines, result,
                   account_vars, twin_call, spins, service_vars>>

StopReels ==
    /\ pc = "strips_built"
    /\ \E stop \in WildNerfStops(reel_strips) :
          /\ stop_positions' = stop
          /\ grid' = WildNerfGrid(SlotConfig("classic").rows, SlotConfig("classic").reels,
                                  reel_strips, stop)
    /\ pc' = "returned"
    /\ UNCHANGED <<config_vars, slot_id, bet_per_line, active_lines, total_bet,
                   nerfed_reel, spin_distributions, reel_strips,
                   win_info, winning_paylines, result, account_vars, twin_call, spins, service_vars>>

NextNerf == BuildReelStrips \/ StopReels

SpecNerf == Init /\ [][NextNerf]_vars


(***************************************************************************)
(* The payline evaluator on its own: one line of a grid, for every slot,   *)
(* every payline and every choice of the line's 4 symbols                  *)
(***************************************************************************)
\* a grid of the slot's first symbol with the line's cells set to cells
LineGrid(slot, line_num, cells) ==
    LET config == SlotConfig(slot)
        path   == PAYLINES_4x4[line_num]
    IN  [r \in 1..config.rows |-> [c \in 1..config.reels |->
            IF \E i \in 1..4 : path[i] = <<r - 1, c - 1>>
            THEN cells[CHOOSE i \in 1..4 : path[i] = <<r - 1, c - 1>>]
            ELSE config.symbols[1].k]]

InitLine ==
    /\ pc = "serving"
    /\ config_table = CLASSIC_SYMBOL_CONFIG
    /\ symbols = CLASSIC_CONFIG.symbols
    /\ reel_distributions = CLASSIC_CONFIG.reel_distributions
    /\ slot_id \in SlotIds
    /\ bet_per_line = 0
    /\ total_bet = 0
    /\ \E line_num \in DOMAIN PAYLINES_4x4 :
          /\ active_lines = <<line_num>>
          /\ \E cells \in [1..4 -> {SlotConfig(slot_id).symbols[i].k :
                                       i \in 1..Len(SlotConfig(slot_id).symbols)}] :
                grid = LineGrid(slot_id, line_num, cells)
    /\ nerfed_reel = -1
    /\ spin_distributions = <<>>
    /\ reel_strips = <<>>
    /\ stop_positions = <<>>
    /\ win_info = NoWin
    /\ winning_paylines = <<>>
    /\ result = NoResult
    /\ twin_call = NoTwin
    /\ spins = NoSpins
    /\ NoServices
    /\ NoAccount

EvaluateLine ==
    /\ pc = "serving"
    /\ win_info' = check_payline_win(grid, PAYLINES_4x4[active_lines[1]],
                                     SlotConfig(slot_id).symbols)
    /\ winning_paylines' = validate_all_paylines(grid, active_lines,
                                                 SlotConfig(slot_id).symbols)
    /\ pc' = "returned"
    /\ UNCHANGED <<config_vars, slot_id, bet_per_line, active_lines, total_bet,
                   nerfed_reel, spin_distributions, reel_strips, stop_positions,
                   grid, result, account_vars, twin_call, spins, service_vars>>

SpecLine == InitLine /\ [][EvaluateLine]_vars

(***************************************************************************)
(* spin_slot: the request, the user's account, the response                *)
(***************************************************************************)
\* XP_PER_G
XP_PER_G == 100

LEVEL_XP_REQUIREMENTS ==
    << 0, 500, 800, 1200, 1700, 2300, 3000, 3800, 4700, 5700, 6800, 8000, 9300,
       10700, 12200, 13800, 15500, 17300, 19200, 21200 >>

\* calculate_xp(bet_amount): int(bet_amount * XP_PER_G)
calculate_xp(bet_amount) ==
    IF bet_amount <= 0 THEN 0
    ELSE Max(0, PyInt(FMulSmall(FromCents(bet_amount), XP_PER_G, 0)))

\* the loop of calculate_level over LEVEL_XP_REQUIREMENTS, from index i on
RECURSIVE LevelLoop(_, _, _, _)
LevelLoop(total_xp, i, cumulative_xp, level) ==
    IF i > Len(LEVEL_XP_REQUIREMENTS) - 1 THEN level
    ELSE LET cumulative == cumulative_xp + LEVEL_XP_REQUIREMENTS[i + 1]
         IN  IF total_xp >= cumulative
             THEN LevelLoop(total_xp, i + 1, cumulative, i + 1)
             ELSE level

\* calculate_level(total_xp), for a total_xp below the sum of the list (the
\* levels beyond the list need more XP than the accounts of the model hold)
calculate_level(total_xp) == LevelLoop(Max(total_xp, 0), 1, 0, 1)

\* QUEST_DEFINITIONS: quest_id, type, target (min_bet is 5.0 for every "spins"
\* and "wins" quest)
QuestDef(quest_id, type, target) == [quest_id |-> quest_id, type |-> type, target |-> target]

QUEST_DEFINITIONS ==
    << QuestDef("spin_10", "spins", 10),
       QuestDef("spin_50", "spins", 50),
       QuestDef("spin_100_high", "spins", 100),
       QuestDef("win_5", "wins", 5),
       QuestDef("win_20", "wins", 20),
       QuestDef("jackpot_win_1", "jackpot_wins", 1),
       QuestDef("jackpot_win_3", "jackpot_wins", 3),
       QuestDef("jackpot_win_5", "jackpot_wins", 5),
       QuestDef("wager_100", "total_wagered", 100),
       QuestDef("wager_500", "total_wagered", 500),
       QuestDef("wager_2000", "total_wagered", 2000) >>

\* get_user_quests: the progress of the user's document, which is created with
\* every quest at 0 when the user has none
get_user_quests(progress) ==
    IF progress # <<>> THEN progress
    ELSE [i \in 1..Len(QUEST_DEFINITIONS) |->
            [k |-> QUEST_DEFINITIONS[i].quest_id,
             v |-> [current |-> 0, completed |-> FALSE, claimed |-> FALSE]]]

\* the loop of update_quest_progress over QUEST_DEFINITIONS, from quest i on;
\* bet_amount in hundredths, actual_bet < (min_bet - 0.05) with min_bet 5.0
RECURSIVE QuestLoop(_, _, _, _, _)
QuestLoop(progress, quest_type, amount, bet_amount, i) ==
    IF i > Len(QUEST_DEFINITIONS) THEN progress
    ELSE LET quest == QUEST_DEFINITIONS[i]
             entry == DictGet(progress, quest.quest_id,
                              [current |-> 0, completed |-> FALSE, claimed |-> FALSE])
             meets_conditions ==
                 IF quest_type \in {"spins", "wins"} THEN ~(bet_amount < 495)
                 ELSE IF quest_type = "jackpot_wins" THEN FALSE
                 ELSE TRUE
             current == entry.current + amount
             updated ==
                 IF current >= quest.target
                 THEN [entry EXCEPT !.current = quest.target, !.completed = TRUE]
                 ELSE [entry EXCEPT !.current = current]
         IN  IF quest.type # quest_type \/ entry.completed \/ ~meets_conditions
             THEN QuestLoop(progress, quest_type, amount, bet_amount, i + 1)
             ELSE QuestLoop(DictSet(progress, quest.quest_id, updated),
                            quest_type, amount, bet_amount, i + 1)

\* update_quest_progress(user_id, quest_type, amount, bet_amount=...)
update_quest_progress(progress, quest_type, amount, bet_amount) ==
    QuestLoop(get_user_quests(progress), quest_type, amount, bet_amount, 1)

\* the three updates of spin_slot: "spins", "total_wagered", and "wins" on a win
QuestsAfterSpin(progress, total, is_win) ==
    LET spun    == update_quest_progress(progress, "spins", 1, total)
        wagered == update_quest_progress(spun, "total_wagered", PyInt(FromCents(total)), 0)
    IN  IF is_win THEN update_quest_progress(wagered, "wins", 1, total) ELSE wagered

NewBalanceWithoutWin(balance, total, win_amount) ==
    PyRound2(FSub(FromCents(balance), FromCents(total)))

\* round(user["balance"] - total_bet + win_amount, 2)
NewBalance(balance, total, win_amount) ==
    PyRound2(FAdd(FSub(FromCents(balance), FromCents(total)), FromCents(win_amount)))

\* the entries spin_slot inserts into db.bet_history: the bet, and the win when
\* win_amount > 0
BetEntries(slot, total, win_amount) ==
    <<[transaction_type |-> "bet", slot_id |-> slot, amount |-> 0 - total]>>
    \o (IF win_amount > 0
        THEN <<[transaction_type |-> "win", slot_id |-> slot, amount |-> win_amount]>>
        ELSE <<>>)

\* SlotBetRequest: bet_per_line has ge=0.01, active_lines has min_length=1
RequestIsValid(req) == req.bet_per_line >= 1 /\ Len(req.active_lines) >= 1

LineRangeNotChecked(req, slot, max_lines) == FALSE

\* "for line in active_lines: if line < 1 or line > max_lines"
InvalidPayline(req, slot, max_lines) ==
    \E i \in 1..Len(req.active_lines) :
        req.active_lines[i] < 1 \/ req.active_lines[i] > max_lines

\* the detail of the HTTPException spin_slot raises before it spins, "" when
\* it raises none
SpinSlotError(req, balance) ==
    IF req.slot_id \notin SlotIds THEN "Invalid slot machine"
    ELSE IF Len(req.active_lines) = 0 THEN "At least 1 payline must be active"
    ELSE IF InvalidPayline(req, req.slot_id, SlotConfig(req.slot_id).max_paylines)
         THEN "Invalid payline"
    ELSE IF ~FGe(FromCents(balance),
                 FromCents(TotalBet(PyRound2(FromCents(req.bet_per_line)),
                                    req.active_lines)))
         THEN "Insufficient balance"
    ELSE ""

\* the most spins a user makes in SpecSpin
MaxSpins == 2

\* the requests of SpecSpin
SpinRequests ==
    [slot_id : {"classic", "diamond", "nosuch"},
     bet_per_line : {0, 1, 500},
     active_lines : {<<>>, <<1, 2, 3, 4, 5, 6, 7, 8>>, <<3, 3>>, <<2, 20>>, <<0, 1>>}]

\* the draws of SpecSpin: the nerfed reel, and one stop for the four reels, at
\* the start of a run of "orange" on reel 0 or at the last position
SpinNerfedReels == {0, 3}

SpinStops(strips) ==
    {<<s, s, s, s>> : s \in {p \in StopChoices(strips[0]) :
                                strips[0][p + 1] = "orange" \/ p = Len(strips[0]) - 1}}

\* the uniform grids of SpecSpin: the shapes in the slot's wild symbol and its
\* first symbol
SpinUniformGrids(slot) ==
    LET config == SlotConfig(slot)
        symbol_list == DictKeys(config.symbols)
    IN  {UniformGrid(shape, symbol_list[Len(symbol_list)], symbol_list[1],
                     config.rows, config.reels) : shape \in UniformShapes}

SpinsMade == Len(SelectSeq(bet_history, LAMBDA entry : entry.transaction_type = "bet"))

\* the request is refused: by the request model (422) or by spin_slot (400)
SpinSlotRefused(req, status, detail, read_user) ==
    /\ bet_request' = req
    /\ user' = read_user
    /\ response' = [NoResponse EXCEPT !.status = status, !.detail = detail]
    /\ total_bet' = IF detail = "Insufficient balance"
                    THEN TotalBet(PyRound2(FromCents(req.bet_per_line)), req.active_lines)
                    ELSE total_bet
    /\ pc' = "returned"
    /\ UNCHANGED <<config_vars, slot_id, bet_per_line, active_lines, nerfed_reel,
                   spin_distributions, reel_strips, stop_positions, grid, win_info,
                   winning_paylines, result, db_user, bet_history, quest_progress,
                   twin_call, spins, service_vars>>

\* spin_slot after calculate_slot_result returned: the update of the user,
\* the history entries, the quests, the response
SpinSlotRecorded(req, g, bet, total, paid, res, new_balance, xp_gained) ==
    /\ bet_request' = req
    /\ user' = db_user
    /\ slot_id' = req.slot_id
    /\ bet_per_line' = bet
    /\ active_lines' = req.active_lines
    /\ total_bet' = total
    /\ grid' = ReturnedGrid(g, req.active_lines, SlotConfig(req.slot_id).symbols)
    /\ winning_paylines' = paid
    /\ result' = res
    /\ db_user' = [balance |-> new_balance,
                   xp |-> Max(0, db_user.xp + xp_gained),
                   level |-> calculate_level(Max(0, db_user.xp + xp_gained)),
                   total_wagered |-> FAdd(db_user.total_wagered, FromCents(total))]
    /\ bet_history' = bet_history \o BetEntries(req.slot_id, total, res.win_amount)
    /\ quest_progress' = QuestsAfterSpin(quest_progress, total, res.is_win)
    /\ response' = [status |-> 200, detail |-> "", new_balance |-> new_balance,
                    xp_gained |-> xp_gained]
    /\ pc' = "returned"
    /\ UNCHANGED <<config_table, symbols, win_info, twin_call, spins, service_vars>>

\* new_balance and xp_gained, from the result of calculate_slot_result
SpinSlotFromResult(req, g, bet, total, paid, res) ==
    SpinSlotRecorded(req, g, bet, total, paid, res,
                     NewBalance(db_user.balance, total, res.win_amount),
                     calculate_xp(total))

\* steps 2 and 3 of calculate_slot_result
SpinSlotFromPaylines(req, g, bet, total, paid) ==
    SpinSlotFromResult(req, g, bet, total, paid, SlotResult(paid, bet, req.active_lines))

\* total_bet, and step 2 of calculate_slot_result on the grid
SpinSlotFromBet(req, g, bet) ==
    SpinSlotFromPaylines(req, g, bet, TotalBet(bet, req.active_lines),
        WithPayouts(validate_all_paylines(g, req.active_lines,
                                          SlotConfig(req.slot_id).symbols), bet))

\* spin_slot from the grid on; bet_per_line = round(bet_request.bet_per_line, 2)
SpinSlotFromGrid(req, g) == SpinSlotFromBet(req, g, PyRound2(FromCents(req.bet_per_line)))

\* the classic slot, from the strips on
SpinSlotFromStrips(req, nerfed, strips) ==
    LET config == SlotConfig("classic")
    IN  \E stop \in SpinStops(strips) :
          /\ nerfed_reel' = nerfed
          /\ stop_positions' = stop
          /\ spin_distributions' = WildNerfDistributions(config.reels, nerfed)
          /\ reel_distributions' =
                SharedAfterNerf(reel_distributions, nerfed,
                                WildNerfDistributions(config.reels, nerfed)[nerfed])
          /\ reel_strips' = strips
          /\ SpinSlotFromGrid(req, WildNerfGrid(config.rows, config.reels, strips, stop))

\* the request passed the checks of spin_slot
SpinSlotAccepted(req) ==
    IF req.slot_id = "classic" /\ reel_distributions # <<>>
    THEN \E nerfed \in SpinNerfedReels, key \in ShuffleKeys :
            SpinSlotFromStrips(req, nerfed,
                               WildNerfStrips(SlotConfig("classic").reels, nerfed, key))
    ELSE \E g \in SpinUniformGrids(req.slot_id) :
            /\ UNCHANGED <<reel_distributions, nerfed_reel, spin_distributions,
                           reel_strips, stop_positions>>
            /\ SpinSlotFromGrid(req, g)

\* spin_slot after its checks, which raised the HTTPException of the detail
SpinSlotChecked(req, detail) ==
    IF detail # "" THEN SpinSlotRefused(req, 400, detail, db_user)
    ELSE SpinSlotAccepted(req)

\* POST /games/slot/spin
SpinSlot ==
    /\ pc = "serving"
    /\ SpinsMade < MaxSpins
    /\ \E req \in SpinRequests :
          IF ~RequestIsValid(req)
          THEN SpinSlotRefused(req, 422, "validation error", NoUser)
          ELSE SpinSlotChecked(req, SpinSlotError(req, db_user.balance))

InitSpin ==
    /\ pc = "serving"
    /\ config_table = CLASSIC_SYMBOL_CONFIG
    /\ symbols = CLASSIC_CONFIG.symbols
    /\ reel_distributions = CLASSIC_CONFIG.reel_distributions
    /\ NoCall
    /\ bet_request = NoRequest
    /\ user = NoUser
    /\ db_user \in {NewUser, [NewUser EXCEPT !.balance = 1, !.xp = 499]}
    /\ bet_history = <<>>
    /\ quest_progress = <<>>
    /\ response = NoResponse

NextSpin == SpinSlot \/ Return

SpecSpin == InitSpin /\ [][NextSpin]_vars

(***************************************************************************)
(* Two calls of calculate_slot_result that meet the same random draws (the *)
(* reel nerfed, the shuffles, the stops, the uniform choices): the call    *)
(* recorded in the state, and a second one with arguments of its own.      *)
(***************************************************************************)
\* the second call: its arguments and the grid it returns
SecondCall(slot, g) ==
    \E bet \in Bets, lines \in ActiveLineChoices(slot) :
        twin_call' = [bet_per_line |-> bet, active_lines |-> lines,
                      reels |-> ReturnedGrid(g, lines, SlotConfig(slot).symbols)]

\* both calls, from the grid of the draws on
TwinCallsFromGrid(slot, g) ==
    /\ SecondCall(slot, g)
    /\ UNCHANGED <<spins, service_vars>>
    /\ \E bet \in Bets, lines \in ActiveLineChoices(slot) : Evaluate(slot, bet, lines, g)

\* the classic slot, from the strips on
TwinCallsFromStrips(nerfed, strips) ==
    LET config == SlotConfig("classic")
    IN  \E stop \in SpinStops(strips) :
          /\ nerfed_reel' = nerfed
          /\ stop_positions' = stop
          /\ spin_distributions' = WildNerfDistributions(config.reels, nerfed)
          /\ reel_distributions' =
                SharedAfterNerf(reel_distributions, nerfed,
                                WildNerfDistributions(config.reels, nerfed)[nerfed])
          /\ reel_strips' = strips
          /\ TwinCallsFromGrid("classic",
                               WildNerfGrid(config.rows, config.reels, strips, stop))

TwinCalls ==
    /\ pc = "serving"
    /\ \E slot \in SlotIds :
          IF slot = "classic" /\ reel_distributions # <<>>
          THEN \E nerfed \in SpinNerfedReels, key \in ShuffleKeys :
                  TwinCallsFromStrips(nerfed,
                      WildNerfStrips(SlotConfig("classic").reels, nerfed, key))
          ELSE \E g \in SpinUniformGrids(slot) :
                  /\ UNCHANGED <<reel_distributions, nerfed_reel, spin_distributions,
                                 reel_strips, stop_positions>>
                  /\ TwinCallsFromGrid(slot, g)

NextTwin == TwinCalls \/ Return

SpecTwin == Init /\ [][NextTwin]_vars

(***************************************************************************)
(* Concurrent spin computations: each call of calculate_slot_result has    *)
(* its locals (the arguments, strip, reel_stops, grid, winning_paylines)   *)
(* in its own frame; the steps of the calls interleave.                    *)
(***************************************************************************)
single_call_vars ==
    <<pc, slot_id, bet_per_line, active_lines, total_bet, nerfed_reel,
      spin_distributions, reel_strips, stop_positions, grid, win_info,
      winning_paylines, result, account_vars, twin_call, service_vars>>

\* the arguments of the concurrent calls
ConcurrentArguments ==
    { [bet_per_line |-> 1, active_lines |-> <<1, 2, 3, 4, 5, 6, 7, 8>>],
      [bet_per_line |-> 2, active_lines |-> <<3, 3>>] }

StripsOfFirstComputation(all_spins, p) ==
    IF all_spins[1].reel_strips # <<>> THEN all_spins[1].reel_strips
    ELSE all_spins[p].reel_strips

\* the strips computation p reads its windows from: its local reel strips
StripsRead(all_spins, p) == all_spins[p].reel_strips

\* calculate_slot_result is called
ConcurrentCall(p) ==
    /\ spins[p].pc = "idle"
    /\ \E args \in ConcurrentArguments :
          spins' = [spins EXCEPT ![p] =
                       [IdleSpin EXCEPT !.pc = "called",
                                        !.bet_per_line = args.bet_per_line,
                                        !.active_lines = args.active_lines]]
    /\ UNCHANGED <<config_vars, single_call_vars>>

\* the nerfed reel is drawn, the strips are built
ConcurrentBuildStrips(p) ==
    /\ spins[p].pc = "called"
    /\ \E nerfed \in SpinNerfedReels, key \in ShuffleKeys :
          /\ spins' = [spins EXCEPT ![p].pc = "strips_built",
                                    ![p].nerfed_reel = nerfed,
                                    ![p].reel_strips =
                                        WildNerfStrips(SlotConfig("classic").reels,
                                                       nerfed, key)]
          /\ reel_distributions' =
                SharedAfterNerf(reel_distributions, nerfed,
                                WildNerfDistributions(SlotConfig("classic").reels,
                                                      nerfed)[nerfed])
    /\ UNCHANGED <<config_table, symbols, single_call_vars>>

\* the stops are drawn, the windows are read
ConcurrentStopReels(p) ==
    /\ spins[p].pc = "strips_built"
    /\ \E stop \in SpinStops(spins[p].reel_strips) :
          spins' = [spins EXCEPT ![p].pc = "grid_sampled",
                                 ![p].stop_positions = stop,
                                 ![p].grid =
                                     WildNerfGrid(SlotConfig("classic").rows,
                                                  SlotConfig("classic").reels,
                                                  StripsRead(spins, p), stop)]
    /\ UNCHANGED <<config_vars, single_call_vars>>

\* steps 2 and 3, from the paid lines
ConcurrentEvaluated(p, paid) ==
    spins' = [spins EXCEPT ![p].pc = "evaluated",
                           ![p].winning_paylines = paid,
                           ![p].result = SlotResult(paid, spins[p].bet_per_line,
                                                    spins[p].active_lines)]

\* steps 2 and 3
ConcurrentEvaluate(p) ==
    /\ spins[p].pc = "grid_sampled"
    /\ ConcurrentEvaluated(p,
          WithPayouts(validate_all_paylines(spins[p].grid, spins[p].active_lines,
                                            SlotConfig("classic").symbols),
                      spins[p].bet_per_line))
    /\ UNCHANGED <<config_vars, single_call_vars>>

\* the call returns
ConcurrentReturn(p) ==
    /\ spins[p].pc = "evaluated"
    /\ spins' = [spins EXCEPT ![p] = IdleSpin]
    /\ UNCHANGED <<config_vars, single_call_vars>>

NextConcurrent ==
    \E p \in Procs :
        \/ ConcurrentCall(p)
        \/ ConcurrentBuildStrips(p)
        \/ ConcurrentStopReels(p)
        \/ ConcurrentEvaluate(p)
        \/ ConcurrentReturn(p)

SpecConcurrent == Init /\ [][NextConcurrent]_vars

(***************************************************************************)
(* Properties.  They are stated on the recorded state, with the line rule  *)
(* written out on the cells of the grid.                                   *)
(***************************************************************************)
\* the symbols of the slot of the call
SlotSymbols == SlotConfig(slot_id).symbols

ConfiguredAsWild(sym) ==
    \E i \in 1..Len(SlotSymbols) : SlotSymbols[i].k = sym /\ SlotSymbols[i].v.is_wild

\* the 4 cells of payline n on the grid, in the order of its coordinates
CellsOfLine(n) ==
    [i \in 1..4 |-> grid[PAYLINES_4x4[n][i][1] + 1][PAYLINES_4x4[n][i][2] + 1]]

PlainPositions(n) == {i \in 1..4 : ~ConfiguredAsWild(CellsOfLine(n)[i])}

FirstPlainSymbol(n) ==
    IF PlainPositions(n) = {} THEN "wild"
    ELSE CellsOfLine(n)[CHOOSE i \in PlainPositions(n) : \A j \in PlainPositions(n) : i <= j]

\* every cell of the line equals the base symbol or is wild
FullLine(n) ==
    \A i \in 1..4 : CellsOfLine(n)[i] = FirstPlainSymbol(n) \/ ConfiguredAsWild(CellsOfLine(n)[i])

\* the line matches on some plain symbol except for one plain cell at position i
SingleMismatchAt(n, i) ==
    /\ i \in PlainPositions(n)
    /\ \E k \in PlainPositions(n) \ {i} :
          /\ CellsOfLine(n)[k] # CellsOfLine(n)[i]
          /\ \A j \in (1..4) \ {i} :
                CellsOfLine(n)[j] = CellsOfLine(n)[k] \/ ConfiguredAsWild(CellsOfLine(n)[j])

ReportedSymbolIsFirstNonWild ==
    pc = "returned" =>
        /\ win_info.win => win_info.symbol = FirstPlainSymbol(active_lines[1])
        /\ FullLine(active_lines[1]) =>
              win_info.win /\ win_info.symbol = FirstPlainSymbol(active_lines[1])

\* [wild, cherry, wild, cherry] of the classic slot won as cherry
WildCherryWildCherryWinsAsCherry ==
    /\ pc = "returned"
    /\ slot_id = "classic"
    /\ CellsOfLine(active_lines[1]) = <<"wild", "cherry", "wild", "cherry">>
    /\ win_info.win
    /\ win_info.symbol = "cherry"

\* the configured multipliers of the wild symbols on line n
WildMultipliersOnLine(n) ==
    {SlotSymbols[j].v.multiplier :
        j \in {k \in 1..Len(SlotSymbols) : \E i \in 1..4 : CellsOfLine(n)[i] = SlotSymbols[k].k}}

ReelWeightsSumTo1000 ==
    (pc # "startup" /\ \E i \in 1..Len(config_table) : config_table[i].k = "orange") =>
        /\ pc = "serving"
        /\ \A reel_idx \in Reels : DictSum(reel_distributions[reel_idx]) = 1000

\* a table was built whose reels held less than, exactly and more than 1000
BuiltFromShortExactAndLongReels ==
    /\ pc = "serving"
    /\ \E i \in 1..Len(config_table) : config_table[i].k = "orange"
    /\ \E a, b, c \in Reels :
          /\ DictSum(TableWeights(config_table, a)) < 1000
          /\ DictSum(TableWeights(config_table, b)) = 1000
          /\ DictSum(TableWeights(config_table, c)) > 1000
    /\ \A reel_idx \in Reels : DictSum(reel_distributions[reel_idx]) = 1000

\* the multipliers the slot's configuration gives the symbol
ConfiguredMultipliers(sym) ==
    {SlotSymbols[j].v.multiplier : j \in {k \in 1..Len(SlotSymbols) : SlotSymbols[k].k = sym}}

\* the payout is bet_per_line times the multiplier (in halves), rounded to the
\* hundredth: exact when that is a whole number of hundredths, else next to it
RoundedProduct(payout, bet, multiplier) ==
    /\ 2 * payout - bet * multiplier \in {-1, 0, 1}
    /\ (bet * multiplier) % 2 = 0 => 2 * payout = bet * multiplier

\* C3: every winning payline returned by calculate_slot_result carries the
\* configured multiplier of the line's base symbol, and its payout is
\* bet_per_line times that multiplier rounded to 2 decimals.
WinningLinePaysConfiguredMultiplier ==
    pc = "returned" =>
        \A i \in 1..Len(winning_paylines) :
            /\ winning_paylines[i].symbol = FirstPlainSymbol(winning_paylines[i].line_number)
            /\ winning_paylines[i].multiplier \in ConfiguredMultipliers(winning_paylines[i].symbol)
            /\ RoundedProduct(winning_paylines[i].payout, bet_per_line,
                              winning_paylines[i].multiplier)

\* C4: the total_bet calculate_slot_result returns, and the one spin_slot
\* charges, is bet_per_line times the number of active lines, rounded to 2
\* decimals.
TotalBetIsBetTimesLineCount ==
    pc = "returned" =>
        /\ result.total_bet = bet_per_line * Len(active_lines)
        /\ total_bet = bet_per_line * Len(active_lines)

\* a spin with the same line listed twice was charged for two lines
TwiceListedLineChargedTwice ==
    /\ pc = "returned"
    /\ active_lines = <<3, 3>>
    /\ bet_per_line = 2
    /\ result.total_bet = 4
    /\ total_bet = 4

\* C5: is_jackpot is true exactly when win_amount is at least 20 times
\* total_bet.
JackpotIffWinAtLeast20TimesBet ==
    pc = "returned" =>
        (result.is_jackpot <=> result.win_amount >= 20 * result.total_bet)

RECURSIVE PayoutsOfFirst(_)
PayoutsOfFirst(n) ==
    IF n = 0 THEN 0 ELSE PayoutsOfFirst(n - 1) + winning_paylines[n].payout

\* C6: win_amount is the sum of the payouts of the entries of
\* winning_paylines, rounded to 2 decimals, and is_win is true exactly when
\* win_amount > 0.
WinAmountIsSumOfPayouts ==
    pc = "returned" =>
        /\ result.win_amount = PayoutsOfFirst(Len(winning_paylines))
        /\ result.is_win <=> result.win_amount > 0

\* a spin with several winning lines of different payouts
SeveralPayoutsSummed ==
    /\ pc = "returned"
    /\ Len(winning_paylines) >= 2
    /\ \E i, j \in 1..Len(winning_paylines) :
          winning_paylines[i].payout # winning_paylines[j].payout
    /\ result.win_amount = PayoutsOfFirst(Len(winning_paylines))
    /\ result.is_win

\* C9: a line is in winning_paylines exactly when it is active and its own 4
\* cells satisfy the full-line rule, whatever the other lines do: the winning
\* lines are the active lines that are full, each as often and in the order it
\* is listed, from none of them to all of them.
WinningLinesAreTheFullActiveLines ==
    pc = "returned" =>
        [i \in 1..Len(winning_paylines) |-> winning_paylines[i].line_number]
            = SelectSeq(active_lines,
                        LAMBDA n : n \in DOMAIN PAYLINES_4x4 /\ FullLine(n))

\* a spin where several active lines won beside active lines that did not
SomeLinesWinBesideLosingLines ==
    /\ pc = "returned"
    /\ Len(winning_paylines) >= 2
    /\ \E i \in 1..Len(active_lines) :
          active_lines[i] \in DOMAIN PAYLINES_4x4 /\ ~FullLine(active_lines[i])
    /\ \E i \in 1..Len(active_lines) : \A j \in 1..Len(winning_paylines) :
          winning_paylines[j].line_number # active_lines[i]

\* the weight map of a nerfed reel: wild at 1, the removed weight on "orange"
NerfedMapOf(base, used) ==
    /\ Len(used) = Len(base)
    /\ \A i \in 1..Len(base) :
          /\ used[i].k = base[i].k
          /\ used[i].v = IF base[i].k = "wild" THEN 1
                         ELSE IF base[i].k = "orange"
                              THEN base[i].v + (DictGet(base, "wild", 0) - 1)
                              ELSE base[i].v

\* C10: a classic spin nerfs exactly one reel, and any reel can be the one;
\* the nerfed reel's weight map is the base map with wild at 1 and the removed
\* weight added to "orange", every other reel's is the base map, and every map
\* used sums to 1000.
OneReelNerfedPerClassicSpin ==
    /\ pc = "serving" =>
          \A r \in 0..3 : ENABLED (nerfed_reel' = r /\ BuildReelStrips)
    /\ (pc \in {"strips_built", "returned"} /\ slot_id = "classic") =>
          /\ nerfed_reel \in 0..3
          /\ Cardinality({c \in 0..3 : spin_distributions[c] # reel_distributions[c]}) = 1
          /\ \A c \in 0..3 :
                /\ IF c = nerfed_reel
                   THEN NerfedMapOf(reel_distributions[c], spin_distributions[c])
                   ELSE spin_distributions[c] = reel_distributions[c]
                /\ DictSum(spin_distributions[c]) = 1000

\* a classic spin with the last reel nerfed: its wild weight 1, its "orange"
\* weight raised by the 29 removed
LastReelNerfed ==
    /\ pc = "returned"
    /\ slot_id = "classic"
    /\ nerfed_reel = 3
    /\ DictGet(spin_distributions[3], "wild", 0) = 1
    /\ DictGet(spin_distributions[3], "orange", 0)
          = DictGet(reel_distributions[3], "orange", 0) + 29
    /\ spin_distributions[0] = reel_distributions[0]

\* how often sym occurs on the strip
CountOnStrip(strip, sym) == Cardinality({i \in 1..Len(strip) : strip[i] = sym})

\* C11: every reel strip built for a spin has exactly 1000 entries and holds
\* each symbol exactly as many times as its weight in the (possibly nerfed)
\* weight map: it is a permutation of the expanded map, nothing padded or cut.
StripIsPermutationOfWeightMap ==
    pc = "returned" =>
        \A c \in 0..3 :
            /\ Len(reel_strips[c]) = 1000
            /\ \A i \in 1..Len(spin_distributions[c]) :
                  CountOnStrip(reel_strips[c], spin_distributions[c][i].k)
                      = spin_distributions[c][i].v
            /\ \A i \in 1..Len(reel_strips[c]) : DictHas(spin_distributions[c], reel_strips[c][i])

\* a spin with reel 0 nerfed and the strips reversed: one wild on reel 0, 30 on reel 1
NerfedStripHoldsOneWild ==
    /\ pc = "returned"
    /\ nerfed_reel = 0
    /\ reel_strips[0][1] = "diamond"
    /\ CountOnStrip(reel_strips[0], "wild") = 1
    /\ CountOnStrip(reel_strips[1], "wild") = 30
    /\ Len(reel_strips[0]) = 1000

\* C12: every reel's column of the grid is the window of its strip from one
\* stop position in 0..999, read with wraparound, and every combination of
\* the reels' stops can be drawn.
GridColumnsAreStripWindows ==
    /\ pc = "returned" =>
          \A c \in 0..3 :
              /\ stop_positions[c + 1] \in 0..999
              /\ \A i \in 0..3 :
                    grid[i + 1][c + 1]
                        = reel_strips[c][((stop_positions[c + 1] + i) % 1000) + 1]
    /\ pc = "strips_built" =>
          \A s0 \in StopChoices(reel_strips[0]), s1 \in StopChoices(reel_strips[1]),
             s2 \in StopChoices(reel_strips[2]), s3 \in StopChoices(reel_strips[3]) :
              ENABLED (stop_positions' = <<s0, s1, s2, s3>> /\ StopReels)

\* reel 0 stopped on the last position of its strip and its window wrapped to
\* the first, while reel 3 stopped elsewhere
WindowWrappedPastTheEnd ==
    /\ pc = "returned"
    /\ stop_positions[1] = 999
    /\ stop_positions[4] < 996
    /\ grid[1][1] = reel_strips[0][1000]
    /\ grid[2][1] = reel_strips[0][1]
    /\ grid[1][1] # grid[2][1]

EveryActiveLineIsAPayline ==
    pc = "returned" =>
        \A i \in 1..Len(active_lines) : active_lines[i] \in DOMAIN PAYLINES_4x4

\* C19: a table that cannot be normalized to non-negative weights summing to
\* 1000 per reel, or that lacks "orange", is rejected at startup: no reel
\* distribution with a negative weight is produced or served.
BrokenTableRejectedAtStartup ==
    pc = "serving" =>
        /\ \E i \in 1..Len(config_table) : config_table[i].k = "orange"
        /\ \A reel_idx \in Reels :
              \A i \in 1..Len(reel_distributions[reel_idx]) :
                  reel_distributions[reel_idx][i].v >= 0

\* C20: for every symbol, reel and percentage the weight before normalization
\* is the percentage times 10 rounded to the nearest integer ("orange" is the
\* one entry the normalization changes afterwards).
WeightIsTenTimesPercentageRounded ==
    pc = "serving" =>
        \A reel_idx \in Reels : \A i \in 1..Len(config_table) :
            config_table[i].k # "orange" =>
                LET weight == DictGet(reel_distributions[reel_idx], config_table[i].k, 0)
                    pct == config_table[i].v.r[reel_idx + 1]
                IN  /\ 10 * weight - pct <= 5
                    /\ pct - 10 * weight <= 5

\* the request is one spin_slot has to refuse: no active line, a bet that is
\* not positive, an unknown slot, a line outside 1..max_paylines, or a balance
\* below the total bet
MustBeRefused(req, balance) ==
    \/ Len(req.active_lines) = 0
    \/ req.bet_per_line <= 0
    \/ req.slot_id \notin SlotIds
    \/ /\ req.slot_id \in SlotIds
       /\ \E i \in 1..Len(req.active_lines) :
             \/ req.active_lines[i] < 1
             \/ req.active_lines[i] > SlotConfig(req.slot_id).max_paylines
    \/ balance < req.bet_per_line * Len(req.active_lines)

\* C16: a request with no active line, a non-positive bet, an unknown slot, a
\* line outside 1..max_paylines or a total bet above the balance is answered
\* with an error; calculate_slot_result is not invoked, and the balance, XP,
\* total_wagered, bet history and quest progress stay as they were.
RefusedRequestChangesNothing ==
    [][(pc = "serving" /\ pc' = "returned" /\ MustBeRefused(bet_request', db_user.balance)) =>
          /\ response'.status \in {400, 422}
          /\ grid' = <<>> /\ result' = NoResult /\ winning_paylines' = <<>>
          /\ db_user' = db_user
          /\ bet_history' = bet_history
          /\ quest_progress' = quest_progress]_vars

\* a request was refused for each reason, the last after an accepted spin
RefusedForInsufficientBalanceAfterASpin ==
    /\ pc = "returned"
    /\ response.status = 400
    /\ response.detail = "Insufficient balance"
    /\ bet_history # <<>>
    /\ db_user.balance < total_bet
    /\ user = db_user
    /\ grid = <<>>

\* C17: after a successful spin_slot the new_balance returned and the balance
\* stored are the balance before the spin minus total_bet plus win_amount (a
\* whole number of hundredths), after any sequence of spins of the user.
NewBalanceIsBalanceMinusBetPlusWin ==
    (pc = "returned" /\ response.status = 200) =>
        /\ response.new_balance = user.balance - total_bet + result.win_amount
        /\ db_user.balance = response.new_balance

\* a second spin of the user won, after a first one that changed the balance
SecondSpinWon ==
    /\ pc = "returned"
    /\ response.status = 200
    /\ SpinsMade = 2
    /\ result.win_amount > 0
    /\ user.balance # 1000
    /\ db_user.balance = user.balance - total_bet + result.win_amount

ReadsItsOwn(spin) ==
    /\ spin.pc \in {"grid_sampled", "evaluated"} =>
          spin.grid = WildNerfGrid(4, 4, spin.reel_strips, spin.stop_positions)
    /\ spin.pc = "evaluated" =>
          \A n \in 1..8 :
              (\E i \in 1..Len(spin.winning_paylines) :
                  spin.winning_paylines[i].line_number = n)
              <=> /\ \E j \in 1..Len(spin.active_lines) : spin.active_lines[j] = n
                  /\ check_payline_win(spin.grid, PAYLINES_4x4[n],
                                       SlotConfig("classic").symbols).win

MaxStakeCents == 5

\* the ordered draws of m distinct stops out of n
RECURSIVE Ways(_, _)
Ways(n, m) ==
    IF m = 0 THEN BigFromInt(1)
    ELSE IF n <= 0 THEN <<>>
    ELSE BigMulSmall(Ways(n - 1, m - 1), n)

\* the cells of the line on the reel
CellsOnReel(line_num, col_idx) ==
    Cardinality({i \in DOMAIN PAYLINES_4x4[line_num] :
                    PAYLINES_4x4[line_num][i][2] = col_idx})

\* the stops of the reel's strip that hold one of the symbols
StopsHolding(nerfed, col_idx, syms) ==
    LET dist == SpinDistribution(reel_distributions, col_idx, nerfed)
        held == SelectSeq(dist, LAMBDA entry : entry.k \in syms)
    IN  DictSum(held)

\* the draws of the line's cells in which every cell holds one of the symbols
RECURSIVE FavourableDraws(_, _, _, _)
FavourableDraws(line_num, nerfed, syms, cols) ==
    IF cols = 0 THEN BigFromInt(1)
    ELSE BigMul(FavourableDraws(line_num, nerfed, syms, cols - 1),
                Ways(StopsHolding(nerfed, cols - 1, syms),
                     CellsOnReel(line_num, cols - 1)))

\* all the draws of the line's cells
RECURSIVE LineDraws(_, _)
LineDraws(line_num, cols) ==
    IF cols = 0 THEN BigFromInt(1)
    ELSE BigMul(LineDraws(line_num, cols - 1),
                Ways(STRIP_LENGTH, CellsOnReel(line_num, cols - 1)))

WildSymbols == {symbols[i].k : i \in {j \in DOMAIN symbols : symbols[j].v.is_wild}}

\* the draws in which check_payline_win finds the base symbol sym on the line:
\* every cell holds sym or a wild and, for a plain sym, not every cell a wild
DrawsWinningAs(line_num, nerfed, sym, cols) ==
    IF sym \in WildSymbols
    THEN IF sym = "wild" THEN FavourableDraws(line_num, nerfed, WildSymbols, cols)
         ELSE <<>>
    ELSE BigSub(FavourableDraws(line_num, nerfed, WildSymbols \cup {sym}, cols),
                FavourableDraws(line_num, nerfed, WildSymbols, cols))

\* the sum, over the first n symbols, of the line payout of a win as the symbol
\* times the draws that win as it
RECURSIVE PayoutOverDraws(_, _, _, _, _)
PayoutOverDraws(bet, line_num, nerfed, cols, n) ==
    IF n = 0 THEN <<>>
    ELSE BigAdd(PayoutOverDraws(bet, line_num, nerfed, cols, n - 1),
                BigMulSmall(DrawsWinningAs(line_num, nerfed, symbols[n].k, cols),
                            LinePayout(bet, SymbolMultiplier(symbols, symbols[n].k))))

\* lines 1 to 4 cross the reels, lines 5 to 8 lie on one reel: the draws of
\* the one kind bring a sum over the draws of the other to the sum over both
DrawsOfOtherKind(line_num, cols) ==
    IF LineDraws(line_num, cols) = LineDraws(1, cols) THEN LineDraws(5, cols)
    ELSE LineDraws(1, cols)

DrawsOfBothKinds(cols) == BigMul(LineDraws(1, cols), LineDraws(5, cols))

AllLines == [i \in 1..8 |-> i]

\* the computation starts for a bet per line
ExpectedReturnStart ==
    /\ rtp.pc = "idle"
    /\ \E bet \in 1..MaxStakeCents :
          rtp' = [pc |-> "summing", bet_per_line |-> bet, nerfed_reel |-> 0,
                  line_num |-> 1, sum |-> <<>>]
    /\ UNCHANGED <<outcome_vars, beside_rtp>>

\* the expected payout of the next line, for the next nerfed reel, is added
ExpectedReturnAddLine ==
    /\ rtp.pc = "summing"
    /\ LET cols == SlotConfig("classic").reels
           term == BigMul(PayoutOverDraws(rtp.bet_per_line, rtp.line_num,
                                          rtp.nerfed_reel, cols, Len(symbols)),
                          DrawsOfOtherKind(rtp.line_num, cols))
           last_line == rtp.line_num = Len(AllLines)
           last_reel == rtp.nerfed_reel = cols - 1
       IN  rtp' = [rtp EXCEPT
                     !.sum = BigAdd(rtp.sum, term),
                     !.line_num = IF last_line THEN 1 ELSE rtp.line_num + 1,
                     !.nerfed_reel = IF last_line /\ ~last_reel
                                     THEN rtp.nerfed_reel + 1 ELSE rtp.nerfed_reel,
                     !.pc = IF last_line /\ last_reel THEN "done" ELSE "summing"]
    /\ UNCHANGED <<outcome_vars, beside_rtp>>

\* the computation is put away
ExpectedReturnReset ==
    /\ rtp.pc = "done"
    /\ rtp' = NoRtp
    /\ UNCHANGED <<outcome_vars, beside_rtp>>

NextRtp == ExpectedReturnStart \/ ExpectedReturnAddLine \/ ExpectedReturnReset

SpecRtp == Init /\ [][NextRtp]_vars

\* rtp.sum / (ExpectedReturnScale * total_bet) is the expected return
ExpectedReturnScale ==
    BigMulSmall(DrawsOfBothKinds(SlotConfig("classic").reels),
                SlotConfig("classic").reels)

\* percent / 100 <= expected return
ExpectedReturnAtLeast(percent) ==
    BigCmp(BigMulSmall(rtp.sum, 100),
           BigMulSmall(BigMulSmall(ExpectedReturnScale,
                                   TotalBet(rtp.bet_per_line, AllLines)),
                       percent)) >= 0

\* expected return <= percent / 100
ExpectedReturnAtMost(percent) ==
    BigCmp(BigMulSmall(rtp.sum, 100),
           BigMulSmall(BigMulSmall(ExpectedReturnScale,
                                   TotalBet(rtp.bet_per_line, AllLines)),
                       percent)) <= 0

\* C21: the exact expected return of a classic spin with all 8 lines active,
\* the expected win_amount over total_bet, lies between 94 % and 96 %.
ExpectedReturnWithinTargetBand ==
    rtp.pc = "done" => ExpectedReturnAtLeast(94) /\ ExpectedReturnAtMost(96)

(***************************************************************************)
(* Two spin_slot requests of one user, served concurrently.  A request     *)
(* gives way to the other at its awaits: after get_current_user, after     *)
(* db.users.update_one, and while it records the bet.                      *)
(***************************************************************************)
\* the requests of SpecRace
RaceRequests ==
    [slot_id : {"classic"},
     bet_per_line : {1, 500},
     active_lines : {<<1, 2, 3, 4, 5, 6, 7, 8>>, <<3, 3>>}]

\* the state of a single call and of a single request
race_frame ==
    <<pc, config_vars, slot_id, bet_per_line, active_lines, total_bet, nerfed_reel,
      spin_distributions, reel_strips, stop_positions, grid, win_info,
      winning_paylines, result, bet_request, user, response, twin_call, spins,
      beside_requests>>

\* user = await get_current_user(request)
RaceGetCurrentUser(p) ==
    /\ requests[p].pc = "idle"
    /\ \E req \in RaceRequests :
          requests' = [requests EXCEPT ![p] =
                          [IdleRequest EXCEPT !.pc = "authenticated",
                                              !.bet_request = req,
                                              !.user = db_user]]
    /\ UNCHANGED <<race_frame, db_user, bet_history, quest_progress>>

\* spin_slot raises an HTTPException
RaceRefused(p) ==
    /\ requests' = [requests EXCEPT ![p].pc = "responded", ![p].status = 400]
    /\ UNCHANGED <<race_frame, db_user, bet_history, quest_progress>>

\* db.users.update_one: "$set" of balance, xp and level, computed from the
\* document get_current_user returned, and "$inc" of total_wagered
RaceUpdated(p, total, res, new_xp) ==
    /\ db_user' = [balance |-> NewBalance(requests[p].user.balance, total,
                                          res.win_amount),
                   xp |-> new_xp,
                   level |-> calculate_level(new_xp),
                   total_wagered |-> FAdd(db_user.total_wagered, FromCents(total))]
    /\ requests' = [requests EXCEPT ![p].pc = "updated",
                                    ![p].total_bet = total,
                                    ![p].result = res]
    /\ UNCHANGED <<race_frame, bet_history, quest_progress>>

\* total_bet, the result of calculate_slot_result on the grid, and the xp
RaceFromBet(p, req, g, bet) ==
    RaceUpdated(p, TotalBet(bet, req.active_lines),
                SlotResult(WithPayouts(validate_all_paylines(
                                           g, req.active_lines,
                                           SlotConfig(req.slot_id).symbols), bet),
                           bet, req.active_lines),
                Max(0, requests[p].user.xp
                       + calculate_xp(TotalBet(bet, req.active_lines))))

\* the classic slot, from the strips on
RaceFromStrips(p, req, strips) ==
    \E stop \in SpinStops(strips) :
        RaceFromBet(p, req,
                    WildNerfGrid(SlotConfig("classic").rows,
                                 SlotConfig("classic").reels, strips, stop),
                    PyRound2(FromCents(req.bet_per_line)))

\* the request passed the checks of spin_slot
RaceAccepted(p, req) ==
    \E nerfed \in SpinNerfedReels, key \in ShuffleKeys :
        RaceFromStrips(p, req, WildNerfStrips(SlotConfig("classic").reels, nerfed, key))

RaceChecked(p, req, detail) ==
    IF detail # "" THEN RaceRefused(p) ELSE RaceAccepted(p, req)

\* spin_slot from its checks to "await db.users.update_one"
RaceUpdateUser(p) ==
    /\ requests[p].pc = "authenticated"
    /\ RaceChecked(p, requests[p].bet_request,
                   SpinSlotError(requests[p].bet_request, requests[p].user.balance))

\* the entries of db.bet_history, the quests, the response
RaceRecord(p) ==
    /\ requests[p].pc = "updated"
    /\ bet_history' = bet_history \o BetEntries(requests[p].bet_request.slot_id,
                                                requests[p].total_bet,
                                                requests[p].result.win_amount)
    /\ quest_progress' = QuestsAfterSpin(quest_progress, requests[p].total_bet,
                                         requests[p].result.is_win)
    /\ requests' = [requests EXCEPT ![p].pc = "responded", ![p].status = 200]
    /\ UNCHANGED <<race_frame, db_user>>

NextRace ==
    \E p \in Procs : RaceGetCurrentUser(p) \/ RaceUpdateUser(p) \/ RaceRecord(p)

SpecRace == Init /\ [][NextRace]_vars

\* the sum of the amounts of the entries: bets negative, wins positive
RECURSIVE SumOfAmounts(_)
SumOfAmounts(history) ==
    IF history = <<>> THEN 0 ELSE Head(history).amount + SumOfAmounts(Tail(history))

\* C22: however two spin_slot requests of one user interleave, the balance
\* stored when both are served is the initial balance minus both total bets
\* plus both win amounts, and the stored balance is never negative.
NoBalanceUpdateIsLost ==
    /\ db_user.balance >= 0
    /\ (\A p \in Procs : requests[p].pc \in {"idle", "responded"})
          => db_user.balance = NewUser.balance + SumOfAmounts(bet_history)

\* the line is a win of wilds only on the grid
AllWildWin(line_num) ==
    /\ check_payline_win(grid, PAYLINES_4x4[line_num], symbols) # NoWin
    /\ \A i \in DOMAIN PAYLINES_4x4[line_num] :
          LineSymbols(grid, PAYLINES_4x4[line_num])[i] = "wild"

\* the wilds in the column of the reel
WildsInColumn(col_idx) ==
    Cardinality({r \in DOMAIN grid : grid[r][col_idx + 1] = "wild"})

\* C23: in every grid generate_random_grid_with_wild_nerf produces from the
\* classic distributions the column of the nerfed reel holds at most one wild,
\* so neither the four vertical lines nor all 8 lines are all-wild wins at once.
NerfedColumnHoldsAtMostOneWild ==
    (pc = "returned" /\ nerfed_reel \in Reels) =>
        /\ WildsInColumn(nerfed_reel) <= 1
        /\ ~AllWildWin(nerfed_reel + 5)
        /\ ~(\A line_num \in 5..8 : AllWildWin(line_num))
        /\ ~(\A line_num \in DOMAIN PAYLINES_4x4 : AllWildWin(line_num))

\* the nerfed reel shows its one wild, beside a reel whose column is an
\* all-wild win
OneWildBesideAnAllWildColumn ==
    /\ pc = "returned"
    /\ nerfed_reel \in Reels
    /\ WildsInColumn(nerfed_reel) = 1
    /\ \E c \in Reels \ {nerfed_reel} : AllWildWin(c + 5)

(***************************************************************************)
(* The simulation harness (slot_simulation.py): its configuration table,   *)
(* the strips it builds once when the module is loaded, and                *)
(* generate_grid_with_wild_nerf, cell by cell.                             *)
(***************************************************************************)
SIM_SYMBOL_CONFIG ==
    << CfgRow("orange",  16,  1800, 2000, 2200, 2400, FALSE),
       CfgRow("lemon",   36,  2000, 1900, 1800, 1700, FALSE),
       CfgRow("cherry",  64,  1600, 1550, 1500, 1450, FALSE),
       CfgRow("bar",     200, 1400, 1350, 1300, 1250, FALSE),
       CfgRow("wild",    280, 800,  800,  800,  800,  TRUE),
       CfgRow("diamond", 520, 1200, 1150, 1100, 1050, FALSE),
       CfgRow("seven",   600, 1200, 1150, 1100, 1050, FALSE) >>

\* REEL_DISTRIBUTIONS = build_reel_distributions()
SIM_REEL_DISTRIBUTIONS == build_config_from_table(SIM_SYMBOL_CONFIG).reel_distributions

\* BASE_STRIPS[reel]: expanded, cut to 1000 stops, shuffled once
BaseStrip(reel, key) ==
    LET strip == Expanded(SIM_REEL_DISTRIBUTIONS[reel])
    IN  Shuffle(SubSeq(strip, 1, Min(Len(strip), STRIP_LENGTH)), key)

\* the first stop of the strip that holds a wild
FirstWild(strip) ==
    CHOOSE q \in 0..(Len(strip) - 1) :
        /\ strip[q + 1] = "wild"
        /\ \A k \in 0..(q - 1) : strip[k + 1] # "wild"

\* the stop positions the model draws from, out of random.randint(0, 999): the
\* first wild of the strip and the last stop
SimStops(strip) == {FirstWild(strip), Len(strip) - 1}

\* the positions the model draws from in the redraw loop: the first stop of
\* the strip and its first wild
SimRedraws(strip) == {0, FirstWild(strip)}

\* build_base_strips(), when the module is loaded
SimBuildBaseStrips ==
    /\ sim.pc = "unloaded"
    /\ \E key \in ShuffleKeys : sim' = [NoSim EXCEPT !.pc = "idle", !.key = key]
    /\ UNCHANGED <<outcome_vars, beside_sim>>

\* generate_grid_with_wild_nerf is called: nerfed_reel = random.randint(0, 3)
SimCall ==
    /\ sim.pc = "idle"
    /\ \E nerfed \in Reels :
          sim' = [NoSim EXCEPT !.pc = "column", !.key = sim.key, !.nerfed_reel = nerfed]
    /\ UNCHANGED <<outcome_vars, beside_sim>>

\* stop_position = random.randint(0, 999), for the next column
SimStop ==
    /\ sim.pc = "column"
    /\ \E stop \in SimStops(BaseStrip(sim.col_idx, sim.key)) :
          sim' = [sim EXCEPT !.pc = "cell", !.stop_position = stop, !.row_idx = 0]
    /\ UNCHANGED <<outcome_vars, beside_sim>>

\* grid[row_idx][col_idx] = symbol, and the loops go on
SimPlaced(symbol) ==
    LET last_row == sim.row_idx = 3
        last_col == sim.col_idx = 3
    IN  [sim EXCEPT !.grid[sim.row_idx + 1][sim.col_idx + 1] = symbol,
                    !.row_idx = IF last_row THEN 0 ELSE sim.row_idx + 1,
                    !.col_idx = IF last_row /\ ~last_col
                                THEN sim.col_idx + 1 ELSE sim.col_idx,
                    !.pc = IF ~last_row THEN "cell"
                           ELSE IF last_col THEN "returned" ELSE "column"]

\* the cell of the next row: the symbol at the stop plus the row; a wild on
\* the nerfed reel is redrawn when random.random() > 0.001, and kept otherwise
SimCellOf(symbol) ==
    IF sim.col_idx = sim.nerfed_reel /\ symbol = "wild"
    THEN sim' = [sim EXCEPT !.pc = "redraw"] \/ sim' = SimPlaced(symbol)
    ELSE sim' = SimPlaced(symbol)

SimCell ==
    /\ sim.pc = "cell"
    /\ SimCellOf(BaseStrip(sim.col_idx, sim.key)
                     [((sim.stop_position + sim.row_idx) % STRIP_LENGTH) + 1])
    /\ UNCHANGED <<outcome_vars, beside_sim>>

\* one round of "while symbol == 'wild'": a position is drawn; the loop ends
\* when its symbol is no wild
SimRedrawOf(symbol) ==
    IF symbol = "wild" THEN sim' = sim ELSE sim' = SimPlaced(symbol)

SimRedraw ==
    /\ sim.pc = "redraw"
    /\ \E pos \in SimRedraws(BaseStrip(sim.col_idx, sim.key)) :
          SimRedrawOf(BaseStrip(sim.col_idx, sim.key)[pos + 1])
    /\ UNCHANGED <<outcome_vars, beside_sim>>

\* return grid, nerfed_reel
SimReturn ==
    /\ sim.pc = "returned"
    /\ sim' = [NoSim EXCEPT !.pc = "idle", !.key = sim.key]
    /\ UNCHANGED <<outcome_vars, beside_sim>>

NextSim ==
    SimBuildBaseStrips \/ SimCall \/ SimStop \/ SimCell \/ SimRedraw \/ SimReturn

SpecSim == Init /\ [][NextSim]_vars

\* the cells of the harness's column that hold the symbol
SimCountInColumn(col_idx, symbol) ==
    Cardinality({r \in 1..4 : sim.grid[r][col_idx + 1] = symbol})

\* the server's generate_random_grid_with_wild_nerf can produce the column for
\* the reel when it is nerfed: the strip is some order of the stops of the
\* reel's weight map with wild at the nerf weight, the column 4 consecutive
\* stops of it, so the column holds no symbol more often than the map does
ServerNerfedColumn(col_idx) ==
    \A i \in DOMAIN symbols :
        SimCountInColumn(col_idx, symbols[i].k)
            <= DictGet(ApplyWildNerf(SIM_REEL_DISTRIBUTIONS[col_idx]), symbols[i].k, 0)

\* C24: every column the harness's generate_grid_with_wild_nerf produces for
\* the nerfed reel is one the server's generate_random_grid_with_wild_nerf can
\* produce for a nerfed reel, a window of a strip in which wild has the nerf
\* weight.
HarnessNerfedColumnIsAServerColumn ==
    sim.pc = "returned" => ServerNerfedColumn(sim.nerfed_reel)

(***************************************************************************)
(* The jackpot: join_jackpot, spin_jackpot, get_jackpot_status and the      *)
(* reset tasks, all on jackpot_state under jackpot_lock                     *)
(***************************************************************************)
\* the bet amounts of the join requests, in hundredths: 0.01 and 2.5
JackpotBets == {1, 250}

\* join_jackpot's checks without the check of the state
JoinErrorWithoutStateCheck(j, user_id) ==
    IF \E i \in DOMAIN j.participants : j.participants[i].user_id = user_id
    THEN "Already in jackpot"
    ELSE IF Len(j.participants) >= JACKPOT_MAX_PARTICIPANTS
    THEN "Jackpot full"
    ELSE ""

\* join_jackpot's checks without the check of the participant cap
JoinErrorWithoutCapCheck(j, user_id) ==
    IF \E i \in DOMAIN j.participants : j.participants[i].user_id = user_id
    THEN "Already in jackpot"
    ELSE IF j.state \notin {"idle", "waiting", "active"}
    THEN "Jackpot not accepting entries"
    ELSE ""

\* join_jackpot's checks under the lock: the detail of the error, "" if none
JoinError(j, user_id) ==
    IF \E i \in DOMAIN j.participants : j.participants[i].user_id = user_id
    THEN "Already in jackpot"
    ELSE IF j.state \notin {"idle", "waiting", "active"}
    THEN "Jackpot not accepting entries"
    ELSE IF Len(j.participants) >= JACKPOT_MAX_PARTICIPANTS
    THEN "Jackpot full"
    ELSE ""

\* round(jackpot_state["total_pot"] + bet_amount, 2)
PotAfterJoin(total_pot, bet_amount) ==
    PyRound2(FAdd(FromCents(total_pot), FromCents(bet_amount)))

\* the state transition at the end of join_jackpot
StateAfterJoin(state, participants) ==
    IF state = "idle" THEN "waiting"
    ELSE IF state = "waiting" /\ Len(participants) >= JACKPOT_MIN_PARTICIPANTS THEN "active"
    ELSE state

\* countdown_end at the end of join_jackpot
CountdownAfterJoin(j, participants) ==
    IF j.state = "idle" THEN j.now + JACKPOT_WAIT_SECONDS
    ELSE IF j.state = "waiting" /\ Len(participants) >= JACKPOT_MIN_PARTICIPANTS
    THEN j.now + JACKPOT_COUNTDOWN_SECONDS
    ELSE j.countdown_end

\* join_jackpot under the lock, past its checks, for the user document it read
\* before the lock: the balance debited, the participant appended, the pot,
\* xp and level, the pending bet entry, the state transition
JackpotAfterJoin(j, user_id, read_user, bet_amount) ==
    LET id           == IF j.state = "idle" THEN j.issued + 1 ELSE j.jackpot_id
        participants == Append(j.participants, Participant(user_id, bet_amount))
        new_xp       == Max(0, read_user.xp + calculate_xp(bet_amount))
    IN  [j EXCEPT
            !.users[user_id] = [balance |-> FSub(@.balance, FromCents(bet_amount)),
                                xp |-> new_xp, level |-> calculate_level(new_xp)],
            !.jackpot_id = id,
            !.issued = IF j.state = "idle" THEN id ELSE @,
            !.participants = participants,
            !.total_pot = PotAfterJoin(@, bet_amount),
            !.bet_history = Append(@, PendingBet(user_id, bet_amount, id)),
            !.state = StateAfterJoin(@, participants),
            !.started_at = IF j.state = "idle" THEN j.now ELSE @,
            !.countdown_end = CountdownAfterJoin(j, participants),
            !.ledger[id].debited = @ + bet_amount]

\* the round after the users lo..hi joined it one after the other, with 0.01
\* each, as long as join_jackpot lets them in
RECURSIVE AfterJoinsOf(_, _, _)
AfterJoinsOf(j, lo, hi) ==
    IF lo > hi \/ JoinError(j, lo) # "" THEN j
    ELSE AfterJoinsOf(JackpotAfterJoin(j, lo, NewJackpotUser, 1), lo + 1, hi)

\* the first round after all the seated users joined it: active, one place left
SeatedJackpot ==
    AfterJoinsOf([NoJackpot EXCEPT
                     !.users = [u \in JackpotPlayers \cup SeatedUsers |-> NewJackpotUser]],
                 Cardinality(JackpotPlayers) + 1, JACKPOT_MAX_PARTICIPANTS + 1)

\* the jackpot is idle as the module loads it, or the seated users are in
InitJackpot ==
    /\ pc = "serving"
    /\ config_table = CLASSIC_SYMBOL_CONFIG
    /\ symbols = CLASSIC_CONFIG.symbols
    /\ reel_distributions = CLASSIC_CONFIG.reel_distributions
    /\ NoCallBut("jackpot")
    /\ NoAccount
    /\ jackpot \in {NoJackpot, SeatedJackpot}

\* a request or task of the jackpot leaves the rest alone
jackpot_frame == UNCHANGED <<outcome_vars, beside_jackpot>>

\* join_jackpot before the lock: get_current_user, bet_amount rounded, the
\* balance check on the document read
JoinJackpotCall(u) ==
    /\ jackpot.joins[u].pc = "idle"
    /\ \E bet \in JackpotBets :
          LET read_user   == jackpot.users[u]
              bet_amount  == PyRound2(FromCents(bet))
          IN  jackpot' =
                 IF ~FGe(read_user.balance, FromCents(bet_amount))
                 THEN [jackpot EXCEPT !.joins[u] = NoJoin]
                 ELSE [jackpot EXCEPT !.joins[u] =
                          [pc |-> "checked", bet_amount |-> bet_amount, user |-> read_user]]
    /\ jackpot_frame

\* join_jackpot under the lock, refused
JoinJackpotRefused(u) ==
    /\ jackpot.joins[u].pc = "checked"
    /\ jackpot.lock = ""
    /\ JoinError(jackpot, u) # ""
    /\ jackpot' = [jackpot EXCEPT !.joins[u] = NoJoin]
    /\ jackpot_frame

\* join_jackpot under the lock, accepted (a round begins only while the model
\* lets rounds begin)
JoinJackpot(u) ==
    /\ jackpot.joins[u].pc = "checked"
    /\ jackpot.lock = ""
    /\ JoinError(jackpot, u) = ""
    /\ jackpot.state = "idle" => jackpot.issued < MaxRounds
    /\ jackpot' =
          [JackpotAfterJoin(jackpot, u, jackpot.joins[u].user, jackpot.joins[u].bet_amount)
              EXCEPT !.joins[u] = NoJoin]
    /\ jackpot_frame

\* spin_jackpot's checks under the lock: the detail of the error, "" if none
SpinError(j) ==
    IF j.state # "active" THEN "Jackpot not ready to spin"
    ELSE IF Len(j.participants) < 2 THEN "Need at least 2 participants"
    ELSE IF j.countdown_end # -1 /\ j.now < j.countdown_end THEN "Countdown not finished"
    ELSE ""

\* the loop of the weighted selection from participant idx on: the index of the
\* first participant with rand <= cumulative, -1 when the loop ends without one
RECURSIVE WinnerLoop(_, _, _, _)
WinnerLoop(participants, rand, idx, cumulative) ==
    IF idx >= Len(participants) THEN -1
    ELSE LET sum == FAdd(cumulative, FromCents(participants[idx + 1].bet_amount))
         IN  IF FGe(sum, rand) THEN idx
             ELSE WinnerLoop(participants, rand, idx + 1, sum)

\* winner_index: the participant the loop found, the last one if it found none
WinnerIndex(participants, rand) ==
    LET found == WinnerLoop(participants, rand, 0, FZero)
    IN  IF found = -1 THEN Len(participants) - 1 ELSE found

\* the values of rand = random.random() * total the model draws, in
\* hundredths: the lowest, the bets of the first participants and what is
\* short of the pot by the last bets
RandChoices(j) ==
    LET n == Len(j.participants)
    IN  {0, j.participants[1].bet_amount, j.participants[1].bet_amount + 1,
         j.total_pot - j.participants[n].bet_amount,
         j.total_pot - j.participants[n].bet_amount + 1, j.total_pot - 1}

\* state = "spinning", the weighted selection and winner_index, in handler
SpinStarted(j, handler, rand) ==
    [j EXCEPT !.lock = handler, !.state = "spinning",
              !.winner_index = WinnerIndex(j.participants, FromCents(rand))]

\* the rest of the spin under the lock: the winner awarded the pot, the
\* pending bet entries settled and the win entry inserted, the round recorded
\* in db.jackpot_history, winner and state = "complete", the reset task created
RECURSIVE SettledEntries(_, _, _)
SettledEntries(history, jackpot_id, winner_id) ==
    IF history = <<>> THEN <<>>
    ELSE LET entry == Head(history)
         IN  <<IF entry.jackpot_id = jackpot_id /\ entry.result = "pending"
               THEN [entry EXCEPT !.result = IF entry.user_id = winner_id
                                             THEN "win" ELSE "loss"]
               ELSE entry>>
             \o SettledEntries(Tail(history), jackpot_id, winner_id)

\* the amount the spin credits to the winner
JackpotAwardOwnBet(j) == j.participants[j.winner_index + 1].bet_amount

JackpotAward(j) == j.total_pot

\* the reset tasks the spin creates
ResetTasksCreatedTwice(j, checks_state) ==
    <<[jackpot_id |-> j.jackpot_id, checks_state |-> checks_state],
      [jackpot_id |-> j.jackpot_id, checks_state |-> checks_state]>>

ResetTasksCreated(j, checks_state) ==
    <<[jackpot_id |-> j.jackpot_id, checks_state |-> checks_state]>>

SpinFinished(j, checks_state) ==
    LET winner == j.participants[j.winner_index + 1]
    IN  [j EXCEPT
            !.users[winner.user_id].balance = FAdd(@, FromCents(JackpotAward(j))),
            !.ledger[j.jackpot_id].credited = @ + JackpotAward(j),
            !.ledger[j.jackpot_id].awards = @ + 1,
            !.bet_history =
                Append(SettledEntries(@, j.jackpot_id, winner.user_id),
                       [user_id |-> winner.user_id, jackpot_id |-> j.jackpot_id,
                        transaction_type |-> "win", amount |-> j.total_pot,
                        result |-> "won"]),
            !.jackpot_history =
                Append(@, [jackpot_id |-> j.jackpot_id, winner_id |-> winner.user_id,
                           total_pot |-> j.total_pot, participants |-> j.participants]),
            !.winner = winner.user_id,
            !.state = "complete",
            !.reset_tasks = @ \o ResetTasksCreated(j, checks_state),
            !.lock = ""]

\* spin_jackpot, refused
SpinJackpotRefused ==
    /\ jackpot.lock = ""
    /\ SpinError(jackpot) # ""
    /\ jackpot' = jackpot
    /\ jackpot_frame

\* spin_jackpot up to the award
SpinJackpot ==
    /\ jackpot.lock = ""
    /\ SpinError(jackpot) = ""
    /\ \E rand \in RandChoices(jackpot) :
          jackpot' = SpinStarted(jackpot, "spin_jackpot", rand)
    /\ jackpot_frame

\* spin_jackpot from the award on; its reset task does not look at the state
SpinJackpotComplete ==
    /\ jackpot.lock = "spin_jackpot"
    /\ jackpot' = SpinFinished(jackpot, FALSE)
    /\ jackpot_frame

\* jackpot_state.update(...) of the refund branch and of the reset tasks
JackpotReset(j) ==
    [j EXCEPT !.state = "idle", !.jackpot_id = 0, !.participants = <<>>,
              !.total_pot = 0, !.started_at = -1, !.countdown_end = -1,
              !.winner = 0, !.winner_index = -1]

\* the balances after each of the participants from the n-th on got the bet back
RECURSIVE Refunded(_, _, _)
Refunded(users, participants, n) ==
    IF n > Len(participants) THEN users
    ELSE Refunded([users EXCEPT ![participants[n].user_id].balance =
                      FAdd(@, FromCents(participants[n].bet_amount))],
                  participants, n + 1)

RECURSIVE SumOfBets(_)
SumOfBets(participants) ==
    IF participants = <<>> THEN 0
    ELSE Head(participants).bet_amount + SumOfBets(Tail(participants))

\* get_jackpot_status: the waiting period expired without a second player
StatusWaitingExpired(j) ==
    j.state = "waiting" /\ j.countdown_end # -1 /\ j.now >= j.countdown_end

\* get_jackpot_status: the countdown of an active round expired
StatusCountdownExpired(j) ==
    /\ j.state = "active" /\ j.countdown_end # -1
    /\ j.now >= j.countdown_end /\ Len(j.participants) >= JACKPOT_MIN_PARTICIPANTS

\* get_jackpot_status refunds the participants of the expired waiting round
GetJackpotStatusRefund ==
    /\ jackpot.lock = ""
    /\ StatusWaitingExpired(jackpot)
    /\ jackpot' =
          [JackpotReset(jackpot) EXCEPT
              !.users = Refunded(@, jackpot.participants, 1),
              !.ledger[jackpot.jackpot_id].refunded = @ + SumOfBets(jackpot.participants),
              !.ledger[jackpot.jackpot_id].refunds = @ + 1]
    /\ jackpot_frame

\* get_jackpot_status triggers the spin, up to the award
GetJackpotStatusSpin ==
    /\ jackpot.lock = ""
    /\ ~StatusWaitingExpired(jackpot)
    /\ StatusCountdownExpired(jackpot)
    /\ \E rand \in RandChoices(jackpot) :
          jackpot' = SpinStarted(jackpot, "get_jackpot_status", rand)
    /\ jackpot_frame

\* get_jackpot_status from the award on, and its answer; its reset task looks
\* at the state
GetJackpotStatusComplete ==
    /\ jackpot.lock = "get_jackpot_status"
    /\ jackpot' = SpinFinished(jackpot, TRUE)
    /\ jackpot_frame

\* get_jackpot_status only answers
GetJackpotStatus ==
    /\ jackpot.lock = ""
    /\ ~StatusWaitingExpired(jackpot)
    /\ ~StatusCountdownExpired(jackpot)
    /\ jackpot' = jackpot
    /\ jackpot_frame

\* a reset task after its sleep, under the lock
ResetJackpot ==
    /\ jackpot.lock = ""
    /\ \E i \in DOMAIN jackpot.reset_tasks :
          LET task  == jackpot.reset_tasks[i]
              tasks == SubSeq(jackpot.reset_tasks, 1, i - 1)
                          \o SubSeq(jackpot.reset_tasks, i + 1, Len(jackpot.reset_tasks))
          IN  jackpot' =
                 IF task.checks_state /\ jackpot.state # "complete"
                 THEN [jackpot EXCEPT !.reset_tasks = tasks]
                 ELSE [JackpotReset(jackpot) EXCEPT !.reset_tasks = tasks]
    /\ jackpot_frame

\* time passes until the deadline in jackpot_state is reached
JackpotDeadline ==
    /\ jackpot.countdown_end # -1
    /\ jackpot.now < jackpot.countdown_end
    /\ jackpot' = [jackpot EXCEPT !.now = jackpot.countdown_end]
    /\ jackpot_frame

NextJackpot ==
    \/ \E u \in JackpotPlayers : JoinJackpotCall(u)
    \/ \E u \in JackpotPlayers : JoinJackpotRefused(u)
    \/ \E u \in JackpotPlayers : JoinJackpot(u)
    \/ SpinJackpotRefused
    \/ SpinJackpot
    \/ SpinJackpotComplete
    \/ GetJackpotStatusRefund
    \/ GetJackpotStatusSpin
    \/ GetJackpotStatusComplete
    \/ GetJackpotStatus
    \/ ResetJackpot
    \/ JackpotDeadline

SpecJackpot == InitJackpot /\ [][NextJackpot]_vars

\* the step from state j to state k is one of the transitions of a round
JackpotTransition(j, k) ==
    \/ /\ j.state = "idle" /\ k.state = "waiting"
       /\ j.participants = <<>> /\ Len(k.participants) = 1
    \/ /\ j.state = "waiting" /\ k.state = "active"
       /\ Len(k.participants) = Len(j.participants) + 1
       /\ Len(k.participants) >= 2
    \/ /\ j.state = "waiting" /\ k.state = "idle"
       /\ j.now >= j.countdown_end
       /\ k.ledger[j.jackpot_id].refunded = SumOfBets(j.participants)
       /\ \A i \in DOMAIN j.participants :
             k.users[j.participants[i].user_id].balance =
                FAdd(j.users[j.participants[i].user_id].balance,
                     FromCents(j.participants[i].bet_amount))
    \/ /\ j.state = "active" /\ k.state = "spinning"
       /\ j.now >= j.countdown_end
       /\ Len(j.participants) >= 2
       /\ k.lock \in {"spin_jackpot", "get_jackpot_status"}
    \/ /\ j.state = "spinning" /\ k.state = "complete"
    \/ /\ j.state = "complete" /\ k.state = "idle"
       /\ Len(k.reset_tasks) < Len(j.reset_tasks)

\* C25: the state of the jackpot round changes only from idle to waiting by
\* the first join, from waiting to active by a join that brings the
\* participants to at least 2, from waiting to idle after the waiting deadline
\* with every participant refunded, from active to spinning after the
\* countdown has ended with at least 2 participants, from spinning to
\* complete, and from complete to idle by a reset; and no join is accepted
\* while the state is spinning or complete.
JackpotMovesAlongItsTransitions ==
    [][/\ jackpot'.state # jackpot.state => JackpotTransition(jackpot, jackpot')
       /\ jackpot.state \in {"spinning", "complete"} =>
             /\ Len(jackpot'.participants) <= Len(jackpot.participants)
             /\ jackpot'.ledger = jackpot.ledger \/ jackpot'.state = "complete"]_vars

\* the first round was refunded, the second went through the spin and was reset
RefundedRoundThenCompletedRoundReset ==
    /\ jackpot.state = "idle"
    /\ jackpot.ledger[1].refunds = 1
    /\ Len(jackpot.jackpot_history) = 1
    /\ jackpot.jackpot_history[1].jackpot_id = 2
    /\ jackpot.reset_tasks = <<>>

\* the user is one of the participants
IsParticipant(participants, user_id) ==
    \E i \in DOMAIN participants : participants[i].user_id = user_id

\* C26: total_pot is the sum of the participants' bet amounts, which is what
\* the round debited from them; a round that ended by a spin credited the
\* whole pot, the sum debited, to a winner who is one of its participants,
\* and a round that ended by the waiting period expiring refunded the sum
\* debited; no round credits anything before it ends.
PotIsSumOfBetsAndPaidOutWhole ==
    /\ jackpot.total_pot = SumOfBets(jackpot.participants)
    /\ jackpot.jackpot_id # 0 =>
          jackpot.ledger[jackpot.jackpot_id].debited = jackpot.total_pot
    /\ \A r \in JackpotRounds :
          LET round == jackpot.ledger[r]
          IN  /\ round.awards > 0 => round.credited = round.debited /\ round.refunded = 0
              /\ round.refunds > 0 => round.refunded = round.debited /\ round.credited = 0
              /\ round.awards = 0 /\ round.refunds = 0 =>
                    round.credited = 0 /\ round.refunded = 0
    /\ \A i \in DOMAIN jackpot.jackpot_history :
          LET round == jackpot.jackpot_history[i]
          IN  /\ IsParticipant(round.participants, round.winner_id)
              /\ round.total_pot = SumOfBets(round.participants)
              /\ round.total_pot = jackpot.ledger[round.jackpot_id].credited

\* a round of one bet of 2.5 was refunded and a round of the bets 0.01 and 2.5
\* paid 2.51 to its winner
RefundedRoundAndRoundOfUnequalBetsPaid ==
    /\ jackpot.ledger[1].refunds = 1
    /\ jackpot.ledger[1].refunded = 250
    /\ jackpot.ledger[2].awards = 1
    /\ jackpot.ledger[2].credited = 251

\* the step from j to k is the run of a reset task that j's round created
ResetOfOwnRound(j, k) ==
    \E i \in DOMAIN j.reset_tasks :
       /\ k.reset_tasks = SubSeq(j.reset_tasks, 1, i - 1)
                             \o SubSeq(j.reset_tasks, i + 1, Len(j.reset_tasks))
       /\ j.reset_tasks[i].jackpot_id = j.jackpot_id
       /\ j.state = "complete"

\* C27: however the spin requests, the status polls, the joins and the reset
\* tasks interleave, a round credits its pot at most once and refunds at most
\* once, and a reset task that clears participants or pot clears those of the
\* finished round that created it, never those of a later round.
RoundPaidOnceAndResetClearsItsOwnRound ==
    /\ [](\A r \in JackpotRounds :
             /\ jackpot.ledger[r].awards <= 1
             /\ jackpot.ledger[r].refunds <= 1
             /\ Cardinality({i \in DOMAIN jackpot.jackpot_history :
                               jackpot.jackpot_history[i].jackpot_id = r}) <= 1)
    /\ [][(/\ Len(jackpot'.reset_tasks) < Len(jackpot.reset_tasks)
           /\ \/ jackpot'.participants # jackpot.participants
              \/ jackpot'.total_pot # jackpot.total_pot)
          => ResetOfOwnRound(jackpot, jackpot')]_vars

\* the first round was paid and reset, and the second has its participants
\* while no reset task is left
LaterRoundUnderWayAfterReset ==
    /\ jackpot.ledger[1].awards = 1
    /\ jackpot.jackpot_id = 2
    /\ Len(jackpot.participants) = 2
    /\ jackpot.state = "active"
    /\ jackpot.reset_tasks = <<>>

\* C28: no user is twice among the participants, there are at most 50
\* participants, the state is idle exactly when there are none, waiting only
\* with exactly one, and active, spinning or complete only with at least two.
ParticipantsDistinctCappedAndMatchingState ==
    /\ \A i, k \in DOMAIN jackpot.participants :
          jackpot.participants[i].user_id = jackpot.participants[k].user_id => i = k
    /\ Len(jackpot.participants) <= 50
    /\ jackpot.state = "idle" <=> jackpot.participants = <<>>
    /\ jackpot.state = "waiting" => Len(jackpot.participants) = 1
    /\ jackpot.state \in {"active", "spinning", "complete"} => Len(jackpot.participants) >= 2

\* the round holds 50 participants and the join request of a further user
\* stands before the lock, to be refused as the jackpot is full
JoinMeetsAFullRound ==
    /\ Len(jackpot.participants) = JACKPOT_MAX_PARTICIPANTS
    /\ \E u \in JackpotPlayers :
          /\ jackpot.joins[u].pc = "checked"
          /\ JoinError(jackpot, u) = "Jackpot full"
    /\ \E u \in JackpotPlayers :
          /\ jackpot.joins[u].pc = "checked"
          /\ JoinError(jackpot, u) = "Already in jackpot"

(***************************************************************************)
(* Trades: accept_trade, reject_trade, cancel_trade and counter_trade on    *)
(* one pending trade, each request a sequence of database calls            *)
(***************************************************************************)
\* the pending trade create_trade stored: user 1 offers item 1 and
\* initiator_g, and asks user 2 for item 2 and recipient_g
PendingTrade(initiator_g, recipient_g) ==
    [status |-> "pending", initiator_id |-> 1, recipient_id |-> 2,
     initiator |-> [items |-> <<1>>, g_amount |-> initiator_g],
     recipient |-> [items |-> <<2>>, g_amount |-> recipient_g]]

\* the G amounts of the trade, in hundredths
TradeAmounts == {0, 50, 2000}

\* the balance of the initiator when the requests come, in hundredths
InitiatorBalances == {100, 1000}

\* a pending trade is stored, no request about it has come yet
InitTrade ==
    /\ pc = "serving"
    /\ config_table = CLASSIC_SYMBOL_CONFIG
    /\ symbols = CLASSIC_CONFIG.symbols
    /\ reel_distributions = CLASSIC_CONFIG.reel_distributions
    /\ NoCallBut("trading")
    /\ NoAccount
    /\ \E initiator_g \in {0, 100}, recipient_g \in {0, 50}, held \in InitiatorBalances :
          trading = [NoTrading EXCEPT
                        !.trades[1] = PendingTrade(initiator_g, recipient_g),
                        !.balance = [u \in TradeUsers |->
                                        FromCents(IF u = 1 THEN held ELSE 1000)],
                        !.opening = [u \in TradeUsers |-> IF u = 1 THEN held ELSE 1000],
                        !.owner = <<1, 2>>]

trade_frame == UNCHANGED <<outcome_vars, beside_trading>>

\* the checks each handler makes on the trade it found: the detail of the
\* error, "" if none
TradeCallError(handler, trade, user_id) ==
    IF trade.status = "none" THEN "Trade not found"
    ELSE IF handler = "cancel" /\ trade.initiator_id # user_id
    THEN "Only the initiator can cancel this trade"
    ELSE IF handler # "cancel" /\ trade.recipient_id # user_id
    THEN "Only the recipient can " \o handler \o " this trade"
    ELSE IF trade.status # "pending" THEN "Trade is no longer pending"
    ELSE ""

\* where each handler goes on after its checks
TradeCallNext(handler) ==
    IF handler = "accept" THEN "validating"
    ELSE IF handler = "counter" THEN "countering"
    ELSE "deleting"

\* a request comes: get_current_user, db.trades.find_one and the checks of
\* the handler
TradeCall(p) ==
    /\ trading.calls[p].pc = "idle"
    /\ \E handler \in {"accept", "reject", "cancel", "counter"}, user_id \in TradeUsers :
       \E offered_g \in (IF handler = "counter" THEN TradeAmounts ELSE {0}) :
          LET trade  == trading.trades[1]
              detail == TradeCallError(handler, trade, user_id)
          IN  trading' = [trading EXCEPT !.calls[p] =
                 [pc |-> IF detail = "" THEN TradeCallNext(handler) ELSE "done",
                  handler |-> handler, user_id |-> user_id,
                  user_balance |-> trading.balance[user_id],
                  trade |-> IF detail = "" THEN trade ELSE NoTrade,
                  offered_g |-> offered_g, detail |-> detail]]
    /\ trade_frame

\* round(g * TRADE_G_FEE_PERCENT, 2) if g > 0 else 0, in hundredths
TradeFee(g) == IF g > 0 THEN PyRound2(FMul(FromCents(g), TRADE_G_FEE_PERCENT)) ELSE 0

\* total_needed = g + fee
TotalNeeded(g) == FAdd(FromCents(g), FromCents(TradeFee(g)))

\* every item of the side is in the inventory of the user
OwnsAll(owner, side, user_id) == \A i \in DOMAIN side.items : owner[side.items[i]] = user_id

\* accept_trade's re-validation on the documents read afresh: the detail of
\* the error, "" if none
AcceptError(t, trade) ==
    IF ~OwnsAll(t.owner, trade.initiator, trade.initiator_id)
    THEN "Trade failed: initiator's item is no longer in their inventory"
    ELSE IF ~OwnsAll(t.owner, trade.recipient, trade.recipient_id)
    THEN "Trade failed: your item is no longer in your inventory"
    ELSE IF /\ trade.initiator.g_amount > 0
            /\ ~FGe(t.balance[trade.initiator_id], TotalNeeded(trade.initiator.g_amount))
    THEN "Trade failed: initiator has insufficient balance"
    ELSE IF /\ trade.recipient.g_amount > 0
            /\ ~FGe(t.balance[trade.recipient_id], TotalNeeded(trade.recipient.g_amount))
    THEN "Trade failed: you have insufficient balance"
    ELSE ""

\* accept_trade: the re-validation; a trade that fails it is deleted
AcceptTradeValidate(p) ==
    /\ trading.calls[p].pc = "validating"
    /\ LET detail == AcceptError(trading, trading.calls[p].trade)
       IN  trading' =
              IF detail = ""
              THEN [trading EXCEPT !.calls[p].pc = "executing"]
              ELSE [trading EXCEPT !.trades[1] = NoTrade,
                                   !.calls[p].pc = "done", !.calls[p].detail = detail]
    /\ trade_frame

\* the items of the side go to the user
ItemsTo(owner, side, user_id) ==
    [i \in DOMAIN owner |->
        IF \E k \in DOMAIN side.items : side.items[k] = i THEN user_id ELSE owner[i]]

\* the payer pays g and the fee, the other user receives g
GPaid(balance, payer, payee, g) ==
    IF g > 0
    THEN [balance EXCEPT ![payer] = FSub(@, TotalNeeded(g)),
                         ![payee] = FAdd(@, FromCents(g))]
    ELSE balance

\* accept_trade: the items and the G change hands
AcceptTradeExecute(p) ==
    /\ trading.calls[p].pc = "executing"
    /\ LET trade == trading.calls[p].trade
       IN  trading' = [trading EXCEPT
              !.owner = ItemsTo(ItemsTo(@, trade.initiator, trade.recipient_id),
                                trade.recipient, trade.initiator_id),
              !.balance = GPaid(GPaid(@, trade.initiator_id, trade.recipient_id,
                                      trade.initiator.g_amount),
                                trade.recipient_id, trade.initiator_id,
                                trade.recipient.g_amount),
              !.transfers = Append(@, [status |-> trading.trades[1].status, trade |-> trade]),
              !.calls[p].pc = "completing"]
    /\ trade_frame

\* accept_trade: the trade, if it is still stored, is marked completed
AcceptTradeComplete(p) ==
    /\ trading.calls[p].pc = "completing"
    /\ trading' = [trading EXCEPT
          !.trades[1].status = IF @ = "none" THEN @ ELSE "completed",
          !.calls[p].pc = "done",
          !.calls[p].detail = "Trade completed successfully!"]
    /\ trade_frame

\* reject_trade and cancel_trade: db.trades.delete_one
TradeDelete(p) ==
    /\ trading.calls[p].pc = "deleting"
    /\ trading' = [trading EXCEPT
          !.trades[1] = NoTrade,
          !.calls[p].pc = "done",
          !.calls[p].detail = IF trading.calls[p].handler = "reject"
                              THEN "Trade rejected and deleted"
                              ELSE "Trade cancelled and deleted"]
    /\ trade_frame

\* counter_trade: the balance check of the counter offer on the user document
\* get_current_user gave
CounterTradeValidate(p) ==
    /\ trading.calls[p].pc = "countering"
    /\ LET call == trading.calls[p]
       IN  trading' =
              IF call.offered_g > 0 /\ ~FGe(call.user_balance, TotalNeeded(call.offered_g))
              THEN [trading EXCEPT !.calls[p].pc = "done",
                       !.calls[p].detail = "Insufficient balance for counter offer"]
              ELSE [trading EXCEPT !.calls[p].pc = "replacing"]
    /\ trade_frame

\* counter_trade: the original trade deleted, the new one inserted with the
\* roles swapped
CounterTradeReplace(p) ==
    /\ trading.calls[p].pc = "replacing"
    /\ LET call == trading.calls[p]
       IN  trading' = [trading EXCEPT
              !.trades[1] = NoTrade,
              !.trades[2] =
                 [status |-> "pending", initiator_id |-> call.user_id,
                  recipient_id |-> call.trade.initiator_id,
                  initiator |-> [items |-> <<>>, g_amount |-> call.offered_g],
                  recipient |-> [items |-> <<>>, g_amount |-> 0]],
              !.calls[p].pc = "done",
              !.calls[p].detail = "Counter offer sent! Original trade deleted."]
    /\ trade_frame

NextTrade ==
    \E p \in Procs :
       \/ TradeCall(p)
       \/ AcceptTradeValidate(p)
       \/ AcceptTradeExecute(p)
       \/ AcceptTradeComplete(p)
       \/ TradeDelete(p)
       \/ CounterTradeValidate(p)
       \/ CounterTradeReplace(p)

SpecTrade == InitTrade /\ [][NextTrade]_vars

\* what a payer of g pays: g and 30 % of g, in hundredths
PaidWithFee(g) == IF g > 0 THEN g + (g * 30) \div 100 ELSE 0

\* C29: however accept, reject, cancel and counter requests on the pending
\* trade interleave, its items and G change hands at most once and only while
\* it is stored as pending; once they have, each payer's balance is down by
\* the G offered plus 30 % and the other's is up by the G offered.
TradeTransfersOnceWhilePending ==
    /\ Len(trading.transfers) <= 1
    /\ \A i \in DOMAIN trading.transfers : trading.transfers[i].status = "pending"
    /\ Len(trading.transfers) = 1 =>
          LET trade == trading.transfers[1].trade
          IN  /\ PyRound2(trading.balance[trade.initiator_id]) =
                    trading.opening[trade.initiator_id]
                       - PaidWithFee(trade.initiator.g_amount) + trade.recipient.g_amount
              /\ PyRound2(trading.balance[trade.recipient_id]) =
                    trading.opening[trade.recipient_id]
                       - PaidWithFee(trade.recipient.g_amount) + trade.initiator.g_amount

(***************************************************************************)
(* claim_quest_reward: the requests of one user, each a sequence of         *)
(* database calls                                                          *)
(***************************************************************************)
\* GAME_PASS_XP_PER_LEVEL, GAME_PASS_MAX_LEVEL
GAME_PASS_XP_PER_LEVEL == 150

GAME_PASS_MAX_LEVEL == 50

\* "rewards" and "game_pass_xp" of QUEST_DEFINITIONS
Reward(quest_id, xp, g, a, game_pass_xp) ==
    [k |-> quest_id, v |-> [xp |-> xp, g |-> g, a |-> a, game_pass_xp |-> game_pass_xp]]

QUEST_REWARDS ==
    << Reward("spin_10", 50, 20, 0, 30),
       Reward("spin_50", 150, 50, 0, 80),
       Reward("spin_100_high", 400, 100, 1, 200),
       Reward("win_5", 75, 25, 0, 50),
       Reward("win_20", 200, 60, 0, 100),
       Reward("jackpot_win_1", 100, 30, 0, 60),
       Reward("jackpot_win_3", 250, 75, 1, 120),
       Reward("jackpot_win_5", 500, 150, 2, 250),
       Reward("wager_100", 100, 25, 0, 60),
       Reward("wager_500", 300, 80, 1, 150),
       Reward("wager_2000", 600, 150, 2, 300) >>

\* a progress entry that was never written
NoProgress == [current |-> 0, completed |-> FALSE, claimed |-> FALSE]

\* the quest_ids of the claim requests: two quests one spin short of their
\* target, a quest not begun and a quest_id that is no quest
ClaimedQuestIds == {"spin_10", "spin_100_high", "win_5", "spin_0"}

\* the user's quests: spin_10 and spin_100_high one spin short of the target
InitClaim ==
    /\ pc = "serving"
    /\ config_table = CLASSIC_SYMBOL_CONFIG
    /\ symbols = CLASSIC_CONFIG.symbols
    /\ reel_distributions = CLASSIC_CONFIG.reel_distributions
    /\ NoCallBut("claiming")
    /\ NoAccount
    /\ \E quests_since_a \in {0, 5} :
          claiming =
             [NoClaiming EXCEPT
                 !.progress =
                    DictSet(DictSet(get_user_quests(<<>>), "spin_10",
                                    [NoProgress EXCEPT !.current = 9]),
                            "spin_100_high", [NoProgress EXCEPT !.current = 99]),
                 !.quests_since_a = quests_since_a,
                 !.user.balance = FromCents(1000)]

claim_frame == UNCHANGED <<outcome_vars, beside_claiming>>

\* a spin of 5 G, won or lost, counts for the quests: the updates of spin_slot
QuestSpin ==
    /\ ~DictGet(claiming.progress, "spin_10", NoProgress).completed
    /\ \E is_win \in BOOLEAN :
          claiming' = [claiming EXCEPT !.progress = QuestsAfterSpin(@, 500, is_win)]
    /\ claim_frame

\* the checks of claim_quest_reward on the progress it read: the detail of
\* the error, "" if none
ClaimError(progress, quest_id) ==
    IF ~DictHas(progress, quest_id) THEN "Quest not found"
    ELSE IF ~DictGet(progress, quest_id, NoProgress).completed THEN "Quest not completed"
    ELSE IF DictGet(progress, quest_id, NoProgress).claimed THEN "Quest already claimed"
    ELSE IF ~DictHas(QUEST_REWARDS, quest_id) THEN "Quest definition not found"
    ELSE ""

\* claim_quest_reward: get_current_user, get_user_quests and the checks
ClaimCall(p) ==
    /\ claiming.calls[p].pc = "idle"
    /\ \E quest_id \in ClaimedQuestIds :
          LET detail == ClaimError(claiming.progress, quest_id)
          IN  claiming' = [claiming EXCEPT !.calls[p] =
                 [NoClaim EXCEPT
                     !.pc = IF detail = "" THEN "rewarding" ELSE "done",
                     !.quest_id = quest_id, !.detail = detail,
                     !.quest_data = [progress |-> claiming.progress,
                                     daily_a_rewards |-> claiming.daily_a_rewards,
                                     quests_since_a |-> claiming.quests_since_a]]]
    /\ claim_frame

\* can_give_a and a_amount, on the quest_data read at the start
CanGiveA(quest_data) == quest_data.daily_a_rewards < 5 /\ quest_data.quests_since_a >= 5

AAmount(rewards, quest_data) == Min(rewards.a, 5 - quest_data.daily_a_rewards)

\* claim_quest_reward: the XP, the G and the A given, the counters of the A
\* currency updated
ClaimReward(p) ==
    /\ claiming.calls[p].pc = "rewarding"
    /\ LET call       == claiming.calls[p]
           rewards    == DictGet(QUEST_REWARDS, call.quest_id, NoRewards)
           quest_data == call.quest_data
           gives_a    == rewards.a > 0 /\ CanGiveA(quest_data)
           a_amount   == IF gives_a THEN AAmount(rewards, quest_data) ELSE 0
       IN  claiming' = [claiming EXCEPT
              !.user.xp = @ + rewards.xp,
              !.user.balance = FAdd(@, FromCents(100 * rewards.g)),
              !.user.balance_a = @ + a_amount,
              !.daily_a_rewards =
                 IF rewards.a > 0 THEN quest_data.daily_a_rewards + a_amount ELSE @,
              !.quests_since_a =
                 IF rewards.a > 0
                 THEN (IF gives_a THEN 0 ELSE quest_data.quests_since_a + 1)
                 ELSE @ + 1,
              !.calls[p].rewards = [xp |-> rewards.xp, g |-> rewards.g, a |-> a_amount,
                                    game_pass_xp |-> rewards.game_pass_xp],
              !.calls[p].pc = "game_pass"]
    /\ claim_frame

\* the loop of add_game_pass_xp: the levels gained and the XP left
RECURSIVE GamePassLevel(_, _)
GamePassLevel(level, xp) ==
    IF xp >= GAME_PASS_XP_PER_LEVEL /\ level < GAME_PASS_MAX_LEVEL
    THEN GamePassLevel(level + 1, xp - GAME_PASS_XP_PER_LEVEL)
    ELSE [game_pass_level |-> level, game_pass_xp |-> xp]

\* claim_quest_reward: add_game_pass_xp
ClaimGamePass(p) ==
    /\ claiming.calls[p].pc = "game_pass"
    /\ LET passed == GamePassLevel(claiming.user.game_pass_level,
                                   claiming.user.game_pass_xp
                                      + claiming.calls[p].rewards.game_pass_xp)
       IN  claiming' = [claiming EXCEPT
              !.user.game_pass_level = passed.game_pass_level,
              !.user.game_pass_xp = passed.game_pass_xp,
              !.calls[p].pc = "marking"]
    /\ claim_frame

\* claim_quest_reward: the quest marked as claimed
ClaimMark(p) ==
    /\ claiming.calls[p].pc = "marking"
    /\ claiming' = [claiming EXCEPT
          !.progress = DictSet(@, claiming.calls[p].quest_id,
                               [DictGet(@, claiming.calls[p].quest_id, NoProgress)
                                   EXCEPT !.claimed = TRUE]),
          !.calls[p].pc = "done",
          !.calls[p].detail = "success"]
    /\ claim_frame

NextClaim ==
    \/ QuestSpin
    \/ \E p \in Procs : ClaimCall(p)
    \/ \E p \in Procs : ClaimReward(p)
    \/ \E p \in Procs : ClaimGamePass(p)
    \/ \E p \in Procs : ClaimMark(p)

SpecClaim == InitClaim /\ [][NextClaim]_vars

\* the requests that gave the reward of the quest
RewardsGiven(quest_id) ==
    {p \in Procs : /\ claiming.calls[p].quest_id = quest_id
                   /\ claiming.calls[p].pc \in {"game_pass", "marking", "done"}
                   /\ claiming.calls[p].detail \in {"", "success"}}

\* C30: a claim of a quest that is not completed, or is already claimed, is
\* refused and gives nothing, and however the claim requests follow each
\* other or interleave, a quest completed once gives its reward at most once:
\* the XP and the G of the user are those of the completed quests, each
\* counted once at most.
QuestRewardOncePerCompletion ==
    /\ \A quest_id \in ClaimedQuestIds :
          Cardinality(RewardsGiven(quest_id))
             <= (IF DictGet(claiming.progress, quest_id, NoProgress).completed THEN 1 ELSE 0)
    /\ \A p \in Procs :
          claiming.calls[p].detail \notin {"", "success"} =>
             claiming.calls[p].rewards = NoRewards
    /\ claiming.user.xp <=
          (IF DictGet(claiming.progress, "spin_10", NoProgress).completed THEN 50 ELSE 0)
        + (IF DictGet(claiming.progress, "spin_100_high", NoProgress).completed THEN 400 ELSE 0)

=============================================================================
